---- MODULE Spec2Model ----
(***************************************************************************)
(* Work Time Tracker: the holiday routes (routes/holidays.js): the         *)
(* business-day generator, the add-holiday and delete-holiday requests and *)
(* the by-date and by-person employee views; and the home page and the    *)
(* role update of the administration (index.js).                           *)
(*                                                                         *)
(* Representation.                                                         *)
(*   - A date string "YYYY-MM-DD" is the tuple <<y, m, d>>; the empty or   *)
(*     absent string is <<>>.                                              *)
(*   - A JavaScript Date is [valid, t]: t is the number of days since      *)
(*     1970-01-01, valid = FALSE is the Invalid Date (NaN time value).     *)
(*     The server clock is taken to be UTC, so the local calendar day of   *)
(*     new Date("YYYY-MM-DD") is the day written in the string.            *)
(*   - A DATE column of the database holds a day number.                   *)
(***************************************************************************)
EXTENDS Integers, Sequences, FiniteSets, TLC

(***************************************************************************)
(* Bounds of the model.                                                    *)
(***************************************************************************)
\* number of consecutive calendar days a request may name, from WindowFirst on
WindowDays == 4
\* number of consecutive calendar days generateDateRange is applied to, from
\* GenFirst on
GenDays == 6
\* number of add-holiday requests that may be in flight at the same time
NProcs == 2

Procs == 1..NProcs

(***************************************************************************)
(* Calendar arithmetic of the JavaScript Date object.                      *)
(***************************************************************************)
\* days since 1970-01-01 of the civil date y-m-d (proleptic Gregorian)
DaysFromCivil(y, m, d) ==
  LET yy  == IF m <= 2 THEN y - 1 ELSE y
      era == yy \div 400
      yoe == yy - era * 400
      mp  == IF m > 2 THEN m - 3 ELSE m + 9
      doy == (153 * mp + 2) \div 5 + d - 1
      doe == yoe * 365 + yoe \div 4 - yoe \div 100 + doy
  IN  era * 146097 + doe - 719468

\* the civil date of day doy, counted from 1 March, of the year yy that
\* begins on 1 March
CivilOfYearDay(yy, doy) ==
  LET mp == (5 * doy + 2) \div 153
      m  == IF mp < 10 THEN mp + 3 ELSE mp - 9
  IN  << yy + (IF m <= 2 THEN 1 ELSE 0), m, doy - (153 * mp + 2) \div 5 + 1 >>

\* the civil date of day doe of a 400-year era
CivilOfEraDay(era, doe) ==
  LET yoe == (doe - doe \div 1460 + doe \div 36524 - doe \div 146096) \div 365
  IN  CivilOfYearDay(yoe + era * 400, doe - (365 * yoe + yoe \div 4 - yoe \div 100))

\* the civil date <<y, m, d>> of a day number
CivilFromDays(t) == CivilOfEraDay((t + 719468) \div 146097, (t + 719468) % 146097)

InvalidDateObj == [valid |-> FALSE, t |-> 0]

DateObj(t) == [valid |-> TRUE, t |-> t]

\* new Date(str): a date-only ISO string is parsed as that day; a day of the
\* month up to 31 is accepted and rolls over into the next month; anything
\* else (empty, month 13, ...) is the Invalid Date.
NewDate(str) ==
  IF Len(str) = 3 /\ str[2] \in 1..12 /\ str[3] \in 1..31
  THEN DateObj(DaysFromCivil(str[1], str[2], 1) + str[3] - 1)
  ELSE InvalidDateObj

\* Date.prototype.getDay(): 0 = Sunday .. 6 = Saturday; NaN (here -1) for the
\* Invalid Date.  1970-01-01 was a Thursday.
getDay(date) == IF date.valid THEN (date.t + 4) % 7 ELSE -1

\* a <= b on Date objects: false when either side is NaN
DateLeq(a, b) == a.valid /\ b.valid /\ a.t <= b.t

\* utils/dateUtils formatDate applied to a Date object: the canonical
\* YYYY-MM-DD string of the day; the Invalid Date formats to a string that is
\* no calendar day ("NaN-NaN-NaN").
formatDateObj(date) == IF date.valid THEN CivilFromDays(date.t) ELSE <<0, 0, 0>>

\* formatDate applied to a date string
formatDate(str) == formatDateObj(NewDate(str))

(***************************************************************************)
(* Inputs of the model.                                                    *)
(***************************************************************************)
\* first day of the window: Friday 2024-05-03
WindowFirst == DaysFromCivil(2024, 5, 3)

Window == WindowFirst .. (WindowFirst + WindowDays - 1)

\* the date strings a form can submit for the days of the window
WindowStrings == { CivilFromDays(t) : t \in Window }

\* a string no date parser accepts ("2024-13-45")
BadDateString == <<2024, 13, 45>>

NoString == <<>>

StartInputs == WindowStrings \cup {NoString, BadDateString}

EndInputs == WindowStrings \cup {NoString, BadDateString}

\* days that the holiday directory may list: Fri 2024-05-03, Sat 2024-05-04 and
\* Mon 2024-05-06
PublicHolidayCandidates ==
  { DaysFromCivil(2024, 5, 3), DaysFromCivil(2024, 5, 4), DaysFromCivil(2024, 5, 6) }

Users == {1, 2}

\* the arguments generateDateRange is applied to: the days from Wednesday
\* 2024-05-01 on
GenFirst == DaysFromCivil(2024, 5, 1)

GenWindow == GenFirst .. (GenFirst + GenDays - 1)

GenStrings == { CivilFromDays(t) : t \in GenWindow }

(***************************************************************************)
(* generateDateRange (routes/holidays.js).                                 *)
(***************************************************************************)
\* the loop of generateDateRange from currentDate on; phDates is the Set of
\* formatted public-holiday dates
RECURSIVE generateLoopSundayOnly(_, _, _)
generateLoopSundayOnly(currentDate, lastDate, phDates) ==
  IF ~DateLeq(currentDate, lastDate) THEN <<>>
  ELSE LET dayOfWeek      == getDay(currentDate)
           currentDateStr == formatDateObj(currentDate)
           rest == generateLoopSundayOnly(DateObj(currentDate.t + 1), lastDate, phDates)
       IN  IF dayOfWeek # 0 /\ currentDateStr \notin phDates
           THEN <<currentDateStr>> \o rest
           ELSE rest

RECURSIVE generateLoopExclusive(_, _, _)
generateLoopExclusive(currentDate, lastDate, phDates) ==
  IF ~(DateLeq(currentDate, lastDate) /\ currentDate # lastDate) THEN <<>>
  ELSE LET dayOfWeek      == getDay(currentDate)
           currentDateStr == formatDateObj(currentDate)
           rest == generateLoopExclusive(DateObj(currentDate.t + 1), lastDate, phDates)
       IN  IF dayOfWeek # 0 /\ dayOfWeek # 6 /\ currentDateStr \notin phDates
           THEN <<currentDateStr>> \o rest
           ELSE rest

RECURSIVE generateLoop(_, _, _)
generateLoop(currentDate, lastDate, phDates) ==
  IF ~DateLeq(currentDate, lastDate) THEN <<>>
  ELSE LET dayOfWeek      == getDay(currentDate)
           currentDateStr == formatDateObj(currentDate)
           rest == generateLoop(DateObj(currentDate.t + 1), lastDate, phDates)
       IN  IF dayOfWeek # 0 /\ dayOfWeek # 6 /\ currentDateStr \notin phDates
           THEN <<currentDateStr>> \o rest
           ELSE rest

\* publicHolidays is the set of holiday_date values (day numbers) of the rows
\* passed in
generateDateRange(startDate, endDate, publicHolidays) ==
  generateLoop(NewDate(startDate), NewDate(endDate),
               { formatDateObj(DateObj(ph)) : ph \in publicHolidays })


(***************************************************************************)
(* State.                                                                  *)
(***************************************************************************)
VARIABLES
  publicHolidayTable, \* public_holidays table: set of holiday_date day numbers
  holidays,           \* holidays table (committed rows): [id, user_id, holiday_date]
  pc,                 \* per request: "idle", "fetch", "select", "insert", "commit", "done"
  userId,             \* per request: req.user.id
  start_date,         \* per request: req.body.start_date
  end_date,           \* per request: req.body.end_date
  publicHolidays,     \* per request: rows returned by PublicHoliday.findByDateRange
  holidayDates,       \* per request: result of generateDateRange
  pos,                \* per request: index in holidayDates of the date being processed
  txn,                \* per request: rows inserted by the open transaction
  response,           \* per request: the redirect sent
  holidaysBefore,     \* per request: the holidays table when the request arrived
  genStart, genEnd, genHolidays, genDates, genDone,
                      \* one application of generateDateRange: inputs, output
  delPc,              \* delete request: "idle", "find", "delete", "done"
  delUserId,          \* delete request: req.user.id
  delIsAdmin,         \* delete request: req.user.isAdmin()
  delId,              \* delete request: req.params.id
  holidayEntry,       \* delete request: result of Holiday.findById
  delResponse,        \* delete request: the redirect sent
  delBefore,          \* delete request: the holidays table when it arrived
  today,              \* the server clock: the current day (a day number)
  monthlyHours,       \* work_hours table: the user's total hours of the current
                      \* month, in 1/Hour hours
  workLocations,      \* work_locations table: [user_id, work_date, is_onsite]
  homePc,             \* home page: "idle", "user", "stats", "window", "section",
                      \* "done" (rendered), "caught" (rendered by way of the catch)
  homeUserId,         \* home page: the user req.oidc.user stands for
  dbUser,             \* home page: id of the user row, 0 while null
  monthPublicHolidays,       \* home page: publicHolidays of the current month
  monthStats,                \* home page: rendered values (NoMonthStats = null)
  publicHolidaysOnWorkdays,
  locationWindow,
  workLocationCalendars,
  todayLocation,
  isTodayRestricted,
  todayRestrictionReason,
  showTodayLocationSection,
  userDirectory,      \* users table in the order of User.getAll:
                      \* [id, name, email, group_id], group_id 0 for null
  groupDirectory,     \* groups table: [id, name]
  publicHolidayNames, \* the name of every row of publicHolidayTable, "" when
                      \* the row has none
  byDatePc,           \* by-date view: "idle", "fetch", "done"
  byDateQuery,        \* by-date view: req.query [month, year]
  byDateRange,        \* by-date view: the month and year after validation
  byDatePage,         \* by-date view: the values rendered
  byPersonPc,         \* by-person view, likewise
  byPersonQuery,
  byPersonRange,
  byPersonPage,
  userAccounts,       \* users table: [role, is_blocked] of every user
  rolePc,             \* role update, per requester: "idle", "auth", "set", "done"
  roleReqUser,        \* role update: req.user, the row requireAuth read
  roleParamsId,       \* role update: req.params.id
  roleBodyRole,       \* role update: req.body.role, "" when absent
  roleResponse        \* role update: the response sent

vars == << publicHolidayTable, holidays, pc, userId, start_date, end_date,
           publicHolidays, holidayDates, pos, txn, response, holidaysBefore,
           genStart, genEnd, genHolidays, genDates, genDone,
           delPc, delUserId, delIsAdmin, delId, holidayEntry, delResponse, delBefore,
           today, monthlyHours, workLocations, homePc, homeUserId, dbUser,
           monthPublicHolidays, monthStats, publicHolidaysOnWorkdays, locationWindow,
           workLocationCalendars, todayLocation, isTodayRestricted,
           todayRestrictionReason, showTodayLocationSection,
           userDirectory, groupDirectory, publicHolidayNames, byDatePc, byDateQuery, byDateRange,
           byDatePage, byPersonPc, byPersonQuery, byPersonRange, byPersonPage,
           userAccounts, rolePc, roleReqUser, roleParamsId, roleBodyRole, roleResponse >>

reqVars == << publicHolidayTable, holidays, pc, userId, start_date, end_date,
              publicHolidays, holidayDates, pos, txn, response, holidaysBefore >>

genVars == << genStart, genEnd, genHolidays, genDates, genDone >>

delVars == << delPc, delUserId, delIsAdmin, delId, holidayEntry, delResponse, delBefore >>

\* the home page: the tables and the clock it reads, and its request
homeVars == << today, monthlyHours, workLocations, homePc, homeUserId, dbUser,
               monthPublicHolidays, monthStats, publicHolidaysOnWorkdays,
               locationWindow, workLocationCalendars, todayLocation,
               isTodayRestricted, todayRestrictionReason, showTodayLocationSection >>

\* the employee views: the directories they read, and their requests
viewVars == << userDirectory, groupDirectory, publicHolidayNames, byDatePc, byDateQuery, byDateRange,
               byDatePage, byPersonPc, byPersonQuery, byPersonRange, byPersonPage >>

\* the role update: the accounts it reads and writes, and its requests
roleVars == << userAccounts, rolePc, roleReqUser, roleParamsId, roleBodyRole, roleResponse >>

\* the variables of the handlers other than add-holiday
otherHandlerVars == << delVars, homeVars, viewVars, roleVars >>

\* the variables of the add-holiday requests, the holidays table left out
addVars == << publicHolidayTable, pc, userId, start_date, end_date,
              publicHolidays, holidayDates, pos, txn, response, holidaysBefore >>

NoResponse == [kind |-> "none", code |-> "", days |-> 0, suffix |-> ""]

\* res.redirect("/holidays?error=<code>")
ErrorRedirect(code) == [kind |-> "error", code |-> code, days |-> 0, suffix |-> ""]

(***************************************************************************)
(* The collaborators of the add-holiday handler.                           *)
(***************************************************************************)
\* PublicHoliday.findByDateRange(startDate, endDate): the rows of the holiday
\* directory whose date lies in [startDate, endDate]
findByDateRange(startDate, endDate) ==
  LET lo == NewDate(startDate)
      hi == NewDate(endDate)
  IN  { ph \in publicHolidayTable :
          DateLeq(lo, DateObj(ph)) /\ DateLeq(DateObj(ph), hi) }

\* the rows a query of request p sees: committed rows and the rows its own
\* open transaction inserted
VisibleRows(p) == holidays \cup txn[p]

\* SELECT id FROM holidays WHERE user_id = $1 AND holiday_date = $2
existingAnyUser(p, uid, holiday_date) ==
  { r \in VisibleRows(p) : DateObj(r.holiday_date) = NewDate(holiday_date) }

existing(p, uid, holiday_date) ==
  { r \in VisibleRows(p) :
      r.user_id = uid /\ DateObj(r.holiday_date) = NewDate(holiday_date) }

\* the id the holidays table gives a new row, unused by any stored or pending
\* row.  Only the uniqueness of ids matters, so an id is written as the row's
\* user and date followed by the row's rank among the rows of that user and
\* date.
FreshId(uid, date) ==
  LET used == { r.id : r \in holidays \cup UNION { txn[q] : q \in Procs } }
      k    == CHOOSE i \in 1..(Cardinality(used) + 1) : <<uid, date, i>> \notin used
  IN  <<uid, date, k>>

\* the row INSERT INTO holidays (user_id, holiday_date) VALUES ($1, $2) adds
NewRow(uid, holiday_date) ==
  LET date == NewDate(holiday_date).t
  IN  [ id |-> FreshId(uid, date), user_id |-> uid, holiday_date |-> date ]

(***************************************************************************)
(* POST /holidays (add holiday), one action per await.                     *)
(***************************************************************************)
\* end_date || start_date
actualEndDate(p) == IF end_date[p] = NoString THEN start_date[p] ELSE end_date[p]

isStartDatePublicHolidayEndDate(p, phRows) ==
  \E ph \in phRows : formatDateObj(DateObj(ph)) = formatDate(actualEndDate(p))

isStartDatePublicHoliday(p, phRows) ==
  \E ph \in phRows : formatDateObj(DateObj(ph)) = formatDate(start_date[p])

\* lines 173-208: the success code from the generated dates
successMessageSundayOnly(startStr, endStr, dates, phRows) ==
  LET daysCount == Len(dates)
      startObj  == NewDate(startStr)
      endObj    == NewDate(endStr)
      totalDayCount == endObj.t - startObj.t + 1
      checkDates == { DateObj(startObj.t + i) : i \in 0..(totalDayCount - 1) }
      hasWeekends == \E c \in checkDates : getDay(c) = 0
      hasPublicHolidays ==
        \E c \in checkDates :
          \E ph \in phRows : formatDateObj(DateObj(ph)) = formatDateObj(c)
  IN  [ kind |-> "success",
        code |-> IF daysCount > 1 THEN "added_N_days" ELSE "added",
        days |-> IF daysCount > 1 THEN daysCount ELSE 0,
        suffix |->
          IF totalDayCount > daysCount
          THEN IF hasWeekends /\ hasPublicHolidays THEN "_weekends_and_holidays_excluded"
               ELSE IF hasWeekends THEN "_weekends_excluded"
               ELSE IF hasPublicHolidays THEN "_holidays_excluded"
               ELSE ""
          ELSE "" ]

successMessage(startStr, endStr, dates, phRows) ==
  LET daysCount == Len(dates)
      startObj  == NewDate(startStr)
      endObj    == NewDate(endStr)
      totalDayCount == endObj.t - startObj.t + 1
      checkDates == { DateObj(startObj.t + i) : i \in 0..(totalDayCount - 1) }
      hasWeekends == \E c \in checkDates : getDay(c) = 0 \/ getDay(c) = 6
      hasPublicHolidays ==
        \E c \in checkDates :
          \E ph \in phRows : formatDateObj(DateObj(ph)) = formatDateObj(c)
  IN  [ kind |-> "success",
        code |-> IF daysCount > 1 THEN "added_N_days" ELSE "added",
        days |-> IF daysCount > 1 THEN daysCount ELSE 0,
        suffix |->
          IF totalDayCount > daysCount
          THEN IF hasWeekends /\ hasPublicHolidays THEN "_weekends_and_holidays_excluded"
               ELSE IF hasWeekends THEN "_weekends_excluded"
               ELSE IF hasPublicHolidays THEN "_holidays_excluded"
               ELSE ""
          ELSE "" ]

\* the request ends with redirect r; its transaction, if any, is closed.  A
\* response is sent once: a redirect after the first one changes nothing.
Respond(p, r) ==
  /\ pc' = [pc EXCEPT ![p] = "done"]
  /\ response' = [response EXCEPT ![p] = IF response[p] = NoResponse THEN r ELSE response[p]]
  /\ txn' = [txn EXCEPT ![p] = {}]
  /\ pos' = [pos EXCEPT ![p] = 0]

\* line 120: !start_date
startMissing(s) == s = NoString

\* lines 125-127: the start date falls on a weekend
startIsWeekendSundayOnly(s) ==
  LET startDayOfWeek == getDay(NewDate(s))
  IN  startDayOfWeek = 0

startIsWeekend(s) ==
  LET startDayOfWeek == getDay(NewDate(s))
  IN  startDayOfWeek = 0 \/ startDayOfWeek = 6

\* lines 114-135: the request arrives; the code runs up to the first await
PostHolidayNoReturn(p, uid, s, e) ==
  /\ pc[p] = "idle"
  /\ userId' = [userId EXCEPT ![p] = uid]
  /\ start_date' = [start_date EXCEPT ![p] = s]
  /\ end_date' = [end_date EXCEPT ![p] = e]
  /\ publicHolidays' = [publicHolidays EXCEPT ![p] = {}]
  /\ holidayDates' = [holidayDates EXCEPT ![p] = <<>>]
  /\ holidaysBefore' = [holidaysBefore EXCEPT ![p] = holidays]
  /\ IF startMissing(s)
     THEN Respond(p, ErrorRedirect("invalid_date"))
     ELSE /\ pc' = [pc EXCEPT ![p] = "fetch"]
          /\ response' = [response EXCEPT ![p] =
               IF startIsWeekend(s) THEN ErrorRedirect("weekend_not_allowed")
               ELSE NoResponse]
          /\ UNCHANGED << txn, pos >>
  /\ UNCHANGED << publicHolidayTable, holidays, genVars, otherHandlerVars >>

PostHoliday(p, uid, s, e) ==
  /\ pc[p] = "idle"
  /\ userId' = [userId EXCEPT ![p] = uid]
  /\ start_date' = [start_date EXCEPT ![p] = s]
  /\ end_date' = [end_date EXCEPT ![p] = e]
  /\ publicHolidays' = [publicHolidays EXCEPT ![p] = {}]
  /\ holidayDates' = [holidayDates EXCEPT ![p] = <<>>]
  /\ holidaysBefore' = [holidaysBefore EXCEPT ![p] = holidays]
  /\ IF startMissing(s)
     THEN Respond(p, ErrorRedirect("invalid_date"))
     ELSE IF startIsWeekend(s)
     THEN Respond(p, ErrorRedirect("weekend_not_allowed"))
     ELSE /\ pc' = [pc EXCEPT ![p] = "fetch"]
          /\ response' = [response EXCEPT ![p] = NoResponse]
          /\ UNCHANGED << txn, pos >>
  /\ UNCHANGED << publicHolidayTable, holidays, genVars, otherHandlerVars >>

\* lines 135-155: findByDateRange returns; the code runs up to the first
\* query of the transaction
PublicHolidaysFetched(p) ==
  /\ pc[p] = "fetch"
  /\ LET rows  == findByDateRange(start_date[p], actualEndDate(p))
         dates == generateDateRange(start_date[p], actualEndDate(p), rows)
     IN  /\ publicHolidays' = [publicHolidays EXCEPT ![p] = rows]
         /\ IF isStartDatePublicHoliday(p, rows)
            THEN /\ Respond(p, ErrorRedirect("public_holiday_not_allowed"))
                 /\ UNCHANGED holidayDates
            ELSE /\ holidayDates' = [holidayDates EXCEPT ![p] = dates]
                 /\ IF Len(dates) = 0
                    THEN Respond(p, ErrorRedirect("no_valid_days"))
                    ELSE /\ pc' = [pc EXCEPT ![p] = "select"]
                         /\ pos' = [pos EXCEPT ![p] = 1]
                         /\ UNCHANGED << txn, response >>
  /\ UNCHANGED << publicHolidayTable, holidays, userId, start_date, end_date,
                  holidaysBefore, genVars, otherHandlerVars >>

\* the loop of lines 156-170 moves to the next date, or the callback returns
\* and the transaction helper issues COMMIT
NextDate(p) ==
  IF pos[p] < Len(holidayDates[p])
  THEN /\ pc' = [pc EXCEPT ![p] = "select"]
       /\ pos' = [pos EXCEPT ![p] = pos[p] + 1]
  ELSE /\ pc' = [pc EXCEPT ![p] = "commit"]
       /\ UNCHANGED pos

\* lines 158-164: the existence check returns
ExistenceCheckedAlwaysInsert(p) ==
  /\ pc[p] = "select"
  /\ pc' = [pc EXCEPT ![p] = "insert"]
  /\ UNCHANGED << publicHolidayTable, holidays, userId, start_date, end_date,
                  publicHolidays, holidayDates, pos, txn, response, holidaysBefore, genVars, otherHandlerVars >>

ExistenceChecked(p) ==
  /\ pc[p] = "select"
  /\ IF existing(p, userId[p], holidayDates[p][pos[p]]) = {}
     THEN /\ pc' = [pc EXCEPT ![p] = "insert"]
          /\ UNCHANGED pos
     ELSE NextDate(p)
  /\ UNCHANGED << publicHolidayTable, holidays, userId, start_date, end_date,
                  publicHolidays, holidayDates, txn, response, holidaysBefore, genVars, otherHandlerVars >>

\* lines 165-168: the INSERT returns
InsertedAutocommit(p) ==
  /\ pc[p] = "insert"
  /\ holidays' = holidays \cup
       { NewRow(userId[p], holidayDates[p][pos[p]]) }
  /\ NextDate(p)
  /\ UNCHANGED << publicHolidayTable, txn, userId, start_date, end_date,
                  publicHolidays, holidayDates, response, holidaysBefore, genVars, otherHandlerVars >>

Inserted(p) ==
  /\ pc[p] = "insert"
  /\ txn' = [txn EXCEPT ![p] = txn[p] \cup
       { NewRow(userId[p], holidayDates[p][pos[p]]) }]
  /\ NextDate(p)
  /\ UNCHANGED << publicHolidayTable, holidays, userId, start_date, end_date,
                  publicHolidays, holidayDates, response, holidaysBefore, genVars, otherHandlerVars >>

\* lines 171-210: COMMIT returns; the pending rows become visible to all and
\* the success redirect is sent
Committed(p) ==
  /\ pc[p] = "commit"
  /\ holidays' = holidays \cup txn[p]
  /\ Respond(p, successMessage(start_date[p], actualEndDate(p),
                               holidayDates[p], publicHolidays[p]))
  /\ UNCHANGED << publicHolidayTable, userId, start_date, end_date,
                  publicHolidays, holidayDates, holidaysBefore, genVars, otherHandlerVars >>

\* lines 211-213: an awaited call rejects (the directory lookup, a query of
\* the transaction or its COMMIT); the transaction is rolled back
Failed(p) ==
  /\ pc[p] \in {"fetch", "select", "insert", "commit"}
  /\ Respond(p, ErrorRedirect("failed"))
  /\ UNCHANGED << publicHolidayTable, holidays, userId, start_date, end_date,
                  publicHolidays, holidayDates, holidaysBefore, genVars, otherHandlerVars >>

\* the response has been sent and the request's locals are released
Finish(p) ==
  /\ pc[p] = "done"
  /\ pc' = [pc EXCEPT ![p] = "idle"]
  /\ userId' = [userId EXCEPT ![p] = 1]
  /\ start_date' = [start_date EXCEPT ![p] = NoString]
  /\ end_date' = [end_date EXCEPT ![p] = NoString]
  /\ publicHolidays' = [publicHolidays EXCEPT ![p] = {}]
  /\ holidayDates' = [holidayDates EXCEPT ![p] = <<>>]
  /\ response' = [response EXCEPT ![p] = NoResponse]
  /\ holidaysBefore' = [holidaysBefore EXCEPT ![p] = {}]
  /\ UNCHANGED << publicHolidayTable, holidays, pos, txn, genVars, otherHandlerVars >>

(***************************************************************************)
(* POST /holidays/:id/delete, one action per await.                        *)
(***************************************************************************)
\* the null Holiday.findById resolves to when no row has the id
NoEntry == [id |-> <<>>, user_id |-> 0, holiday_date |-> 0]

\* Holiday.findById(id): the row of the holidays table with this id, or null
findById(id) ==
  IF \E r \in holidays : r.id = id
  THEN CHOOSE r \in holidays : r.id = id
  ELSE NoEntry

\* res.redirect("/holidays?success=deleted")
DeletedRedirect == [kind |-> "success", code |-> "deleted", days |-> 0, suffix |-> ""]

DeleteRespond(r) ==
  /\ delPc' = "done"
  /\ delResponse' = r

\* lines 218-223: the request arrives; the code runs up to await findById
DeleteRequested(uid, admin, id) ==
  /\ delPc = "idle"
  /\ delPc' = "find"
  /\ delUserId' = uid
  /\ delIsAdmin' = admin
  /\ delId' = id
  /\ holidayEntry' = NoEntry
  /\ delResponse' = NoResponse
  /\ delBefore' = holidays
  /\ UNCHANGED << holidays, addVars, genVars, homeVars, viewVars, roleVars >>

\* lines 223-234: findById returns; the code runs up to await delete().  For
\* an administrator and an id without row, holidayEntry.delete() is a call on
\* null: it throws and the catch of line 237 answers.
HolidayFoundNoOwnerCheck ==
  /\ delPc = "find"
  /\ LET entry == findById(delId)
     IN  /\ holidayEntry' = entry
         /\ IF entry = NoEntry /\ ~delIsAdmin
            THEN DeleteRespond(ErrorRedirect("not_found"))
            ELSE IF entry = NoEntry
            THEN DeleteRespond(ErrorRedirect("failed"))
            ELSE /\ delPc' = "delete"
                 /\ UNCHANGED delResponse
  /\ UNCHANGED << holidays, delUserId, delIsAdmin, delId, delBefore, addVars, genVars, homeVars, viewVars, roleVars >>

HolidayFound ==
  /\ delPc = "find"
  /\ LET entry == findById(delId)
     IN  /\ holidayEntry' = entry
         /\ IF (entry = NoEntry \/ entry.user_id # delUserId) /\ ~delIsAdmin
            THEN DeleteRespond(ErrorRedirect("not_found"))
            ELSE IF entry = NoEntry
            THEN DeleteRespond(ErrorRedirect("failed"))
            ELSE /\ delPc' = "delete"
                 /\ UNCHANGED delResponse
  /\ UNCHANGED << holidays, delUserId, delIsAdmin, delId, delBefore, addVars, genVars, homeVars, viewVars, roleVars >>

\* lines 234-236: holidayEntry.delete() returns (DELETE FROM holidays WHERE
\* id = $1) and the success redirect is sent
HolidayDeleted ==
  /\ delPc = "delete"
  /\ holidays' = { r \in holidays : r.id # holidayEntry.id }
  /\ DeleteRespond(DeletedRedirect)
  /\ UNCHANGED << delUserId, delIsAdmin, delId, holidayEntry, delBefore, addVars, genVars, homeVars, viewVars, roleVars >>

\* lines 237-239: findById or delete() rejects
DeleteFailed ==
  /\ delPc \in {"find", "delete"}
  /\ DeleteRespond(ErrorRedirect("failed"))
  /\ UNCHANGED << holidays, delUserId, delIsAdmin, delId, holidayEntry, delBefore,
                  addVars, genVars, homeVars, viewVars, roleVars >>

DeleteIdle ==
  /\ delPc = "idle" /\ delUserId = 1 /\ delIsAdmin = FALSE /\ delId = <<>>
  /\ holidayEntry = NoEntry /\ delResponse = NoResponse /\ delBefore = {}

(***************************************************************************)
(* GET / (home page, index.js).  Hours are counted in 1/Hour of an hour so *)
(* that the rounding to two decimals has something to round.  The strings  *)
(* "true", "false" and "null" stand for the three values of is_onsite.     *)
(***************************************************************************)
\* the number of model units in one hour
Hour == 1000

\* Math.round(x * 100) / 100: to the nearest hundredth, a half rounds up
Round2(x) == ((x * 100 + Hour \div 2) \div Hour) * (Hour \div 100)

\* Math.max(a, b)
MathMaxSecond(a, b) == b

MathMax(a, b) == IF a >= b THEN a ELSE b

\* Math.min(a, b)
MathMin(a, b) == IF a <= b THEN a ELSE b

\* new Date(year, month, 0).getDate(): the number of days of the month
daysInMonth(year, month) ==
  IF month = 12
  THEN DaysFromCivil(year + 1, 1, 1) - DaysFromCivil(year, 12, 1)
  ELSE DaysFromCivil(year, month + 1, 1) - DaysFromCivil(year, month, 1)

\* utils/dateUtils getWeekdaysInMonth: the number of Monday-Friday days
getWeekdaysInMonth(year, month) ==
  Cardinality({ d \in 1..daysInMonth(year, month) :
                  getDay(DateObj(DaysFromCivil(year, month, d))) \notin {0, 6} })

\* utils/dateUtils getMonthDateRange: first and last day of the month
getMonthDateRange(year, month) ==
  [ startDate |-> <<year, month, 1>>,
    endDate   |-> <<year, month, daysInMonth(year, month)>> ]

\* PublicHoliday.findByMonthAndYear(month, year)
findByMonthAndYear(month, year) ==
  { ph \in publicHolidayTable :
      CivilFromDays(ph)[1] = year /\ CivilFromDays(ph)[2] = month }

\* WorkHours.getTotalMonthlyHours(userId, year, month)
getTotalMonthlyHours(uid, year, month) == monthlyHours

\* Holiday.getTotalMonthlyHolidays(userId, year, month)
getTotalMonthlyHolidays(uid, year, month) ==
  Cardinality({ r \in holidays :
                  /\ r.user_id = uid
                  /\ CivilFromDays(r.holiday_date)[1] = year
                  /\ CivilFromDays(r.holiday_date)[2] = month })

\* Holiday.findByUserAndDateRange(userId, startDate, endDate)
holidaysByUserAndDateRange(uid, startDate, endDate) ==
  { r \in holidays :
      /\ r.user_id = uid
      /\ DateLeq(NewDate(startDate), DateObj(r.holiday_date))
      /\ DateLeq(DateObj(r.holiday_date), NewDate(endDate)) }

\* WorkLocation.findByUserAndDateRange(userId, startDate, endDate)
locationsByUserAndDateRange(uid, startDate, endDate) ==
  { l \in workLocations :
      /\ l.user_id = uid
      /\ DateLeq(NewDate(startDate), DateObj(l.work_date))
      /\ DateLeq(DateObj(l.work_date), NewDate(endDate)) }

\* line 293
hoursPerDay == 8

\* lines 285-290: the public holidays that fall on Monday-Friday
holidaysOnWorkdays(phRows) ==
  { ph \in phRows : LET dayOfWeek == getDay(DateObj(ph))
                    IN  dayOfWeek # 0 /\ dayOfWeek # 6 }

\* lines 292-319: the statistics of the month
MonthStatsOnlyWorkdayHolidays(totalWorkHours, holidayCount, phRows, year, month) ==
  LET onWorkdays           == holidaysOnWorkdays(phRows)
      workDaysInMonth      == getWeekdaysInMonth(year, month)
      requiredMonthlyHours == (workDaysInMonth - Cardinality(onWorkdays)) * hoursPerDay * Hour
      totalHolidayHours    == holidayCount * hoursPerDay * Hour
      publicHolidayHours   == Cardinality(onWorkdays) * hoursPerDay * Hour
      totalCombinedHours   == totalWorkHours + totalHolidayHours
      remainingHours       == MathMax(0, requiredMonthlyHours - totalCombinedHours)
  IN  [ totalWorkHours       |-> Round2(totalWorkHours),
        holidayCount         |-> holidayCount,
        totalHolidayHours    |-> totalHolidayHours,
        publicHolidaysCount  |-> Cardinality(onWorkdays),
        publicHolidayHours   |-> publicHolidayHours,
        totalCombinedHours   |-> Round2(totalCombinedHours),
        requiredMonthlyHours |-> requiredMonthlyHours,
        remainingHours       |-> Round2(remainingHours) ]

MonthStatsHolidaysCombined(totalWorkHours, holidayCount, phRows, year, month) ==
  LET onWorkdays           == holidaysOnWorkdays(phRows)
      workDaysInMonth      == getWeekdaysInMonth(year, month)
      requiredMonthlyHours == (workDaysInMonth - Cardinality(phRows)) * hoursPerDay * Hour
      totalHolidayHours    == holidayCount * hoursPerDay * Hour
      publicHolidayHours   == Cardinality(onWorkdays) * hoursPerDay * Hour
      totalCombinedHours   == totalWorkHours + totalHolidayHours + publicHolidayHours
      remainingHours       == MathMax(0, requiredMonthlyHours - totalCombinedHours)
  IN  [ totalWorkHours       |-> Round2(totalWorkHours),
        holidayCount         |-> holidayCount,
        totalHolidayHours    |-> totalHolidayHours,
        publicHolidaysCount  |-> Cardinality(onWorkdays),
        publicHolidayHours   |-> publicHolidayHours,
        totalCombinedHours   |-> Round2(totalCombinedHours),
        requiredMonthlyHours |-> requiredMonthlyHours,
        remainingHours       |-> Round2(remainingHours) ]

MonthStats(totalWorkHours, holidayCount, phRows, year, month) ==
  LET onWorkdays           == holidaysOnWorkdays(phRows)
      workDaysInMonth      == getWeekdaysInMonth(year, month)
      requiredMonthlyHours == (workDaysInMonth - Cardinality(phRows)) * hoursPerDay * Hour
      totalHolidayHours    == holidayCount * hoursPerDay * Hour
      publicHolidayHours   == Cardinality(onWorkdays) * hoursPerDay * Hour
      totalCombinedHours   == totalWorkHours + totalHolidayHours
      remainingHours       == MathMax(0, requiredMonthlyHours - totalCombinedHours)
  IN  [ totalWorkHours       |-> Round2(totalWorkHours),
        holidayCount         |-> holidayCount,
        totalHolidayHours    |-> totalHolidayHours,
        publicHolidaysCount  |-> Cardinality(onWorkdays),
        publicHolidayHours   |-> publicHolidayHours,
        totalCombinedHours   |-> Round2(totalCombinedHours),
        requiredMonthlyHours |-> requiredMonthlyHours,
        remainingHours       |-> Round2(remainingHours) ]

\* lines 446-455: the fallback statistics of the catch
ZeroMonthStats ==
  [ totalWorkHours |-> 0, holidayCount |-> 0, totalHolidayHours |-> 0,
    publicHolidaysCount |-> 0, publicHolidayHours |-> 0, totalCombinedHours |-> 0,
    requiredMonthlyHours |-> 0, remainingHours |-> 0 ]

\* line 233: let monthStats = null
NoMonthStats ==
  [ totalWorkHours |-> -1, holidayCount |-> -1, totalHolidayHours |-> -1,
    publicHolidaysCount |-> -1, publicHolidayHours |-> -1, totalCombinedHours |-> -1,
    requiredMonthlyHours |-> -1, remainingHours |-> -1 ]

\* line 236: let locationWindow = null
NoLocationWindow == [start |-> NoString, end |-> NoString]

\* lines 256-258
currentYear == CivilFromDays(today)[1]

currentMonth == CivilFromDays(today)[2]

\* line 261: formatDate(today)
todayIso == formatDateObj(DateObj(today))

\* lines 322-327: the months around the current one
prevMonth(curMonth) == IF curMonth = 1 THEN 12 ELSE curMonth - 1

prevYear(curMonth, curYear) == IF curMonth = 1 THEN curYear - 1 ELSE curYear

nextMonth(curMonth) == IF curMonth = 12 THEN 1 ELSE curMonth + 1

nextYear(curMonth, curYear) == IF curMonth = 12 THEN curYear + 1 ELSE curYear

nextMonth2(nxtMonth) == IF nxtMonth = 12 THEN 1 ELSE nxtMonth + 1

nextYear2SameYear(nxtMonth, nxtYear) == nxtYear

nextYear2(nxtMonth, nxtYear) == IF nxtMonth = 12 THEN nxtYear + 1 ELSE nxtYear

\* lines 329-340: the span all four months are fetched for
LocationWindowOf(curMonth, curYear) ==
  LET nm == nextMonth(curMonth)
      ny == nextYear(curMonth, curYear)
  IN  [ start |-> getMonthDateRange(prevYear(curMonth, curYear), prevMonth(curMonth)).startDate,
        end   |-> getMonthDateRange(nextYear2(nm, ny), nextMonth2(nm)).endDate ]

\* lines 382-385 and 406-407: locationMap[dateStr], null when undefined
locationValue(locationEntries, dateStr) ==
  IF \E loc \in locationEntries : formatDateObj(DateObj(loc.work_date)) = dateStr
  THEN LET loc == CHOOSE l \in locationEntries : formatDateObj(DateObj(l.work_date)) = dateStr
       IN  IF loc.is_onsite THEN "true" ELSE "false"
  ELSE "null"

\* lines 394-426
buildLocationCalendar(month, year, locationEntries, holidaySet, publicHolidaySet) ==
  [ month |-> month,
    year  |-> year,
    days  |-> [ day \in 1..daysInMonth(year, month) |->
                  LET dateStr   == <<year, month, day>>
                      dayOfWeek == getDay(DateObj(DaysFromCivil(year, month, day)))
                      locationVal == locationValue(locationEntries, dateStr)
                  IN  [ day             |-> day,
                        date            |-> dateStr,
                        isWeekend       |-> dayOfWeek = 0 \/ dayOfWeek = 6,
                        isHoliday       |-> dateStr \in holidaySet,
                        isPublicHoliday |-> dateStr \in publicHolidaySet,
                        is_onsite       |-> locationVal,
                        isRemote        |-> locationVal = "false" ] ] ]

\* line 438: workLocationCalendars[1]?.days.find(day => day.date === todayIso),
\* as the set of the cells found (empty for undefined)
todayInfo(calendars, iso) ==
  IF Len(calendars) < 2 THEN {}
  ELSE LET days == calendars[2].days
           hits == { i \in 1..Len(days) : days[i].date = iso }
       IN  IF hits = {} THEN {}
           ELSE { days[CHOOSE i \in hits : \A j \in hits : i <= j] }

\* line 439
todayRestricted(info) ==
  \E cell \in info : cell.isWeekend \/ cell.isHoliday \/ cell.isPublicHoliday

\* line 440; "swieto" is the public holiday, "urlop" the personal holiday
restrictionReasonHolidayFirst(info) ==
  IF \E cell \in info : cell.isHoliday THEN "urlop"
  ELSE IF \E cell \in info : cell.isPublicHoliday THEN "swieto"
  ELSE IF \E cell \in info : cell.isWeekend THEN "weekend"
  ELSE "null"

restrictionReason(info) ==
  IF \E cell \in info : cell.isPublicHoliday THEN "swieto"
  ELSE IF \E cell \in info : cell.isHoliday THEN "urlop"
  ELSE IF \E cell \in info : cell.isWeekend THEN "weekend"
  ELSE "null"

homeTables == << publicHolidayTable, holidays, today, monthlyHours, workLocations >>

\* lines 231-246: the request arrives; an anonymous visitor gets the page at
\* once
HomeRequested(authenticated, uid) ==
  /\ homePc = "idle"
  /\ homeUserId' = uid
  /\ homePc' = IF authenticated THEN "user" ELSE "done"
  /\ UNCHANGED << dbUser, monthPublicHolidays, monthStats, publicHolidaysOnWorkdays,
                  locationWindow, workLocationCalendars, todayLocation,
                  isTodayRestricted, todayRestrictionReason, showTodayLocationSection,
                  homeTables, addVars, genVars, delVars, viewVars, roleVars >>

\* line 250: User.createFromAuth0 returns
HomeUserCreated ==
  /\ homePc = "user"
  /\ dbUser' = homeUserId
  /\ homePc' = "stats"
  /\ UNCHANGED << homeUserId, monthPublicHolidays, monthStats, publicHolidaysOnWorkdays,
                  locationWindow, workLocationCalendars, todayLocation,
                  isTodayRestricted, todayRestrictionReason, showTodayLocationSection,
                  homeTables, addVars, genVars, delVars, viewVars, roleVars >>

\* lines 253-357: the hours, the holiday count and the public holidays of the
\* month return; the code runs up to the Promise.all of line 359
HomeStatsFetched ==
  /\ homePc = "stats"
  /\ LET totalWorkHours == getTotalMonthlyHours(dbUser, currentYear, currentMonth)
         holidayCount   == getTotalMonthlyHolidays(dbUser, currentYear, currentMonth)
         phRows         == findByMonthAndYear(currentMonth, currentYear)
     IN  /\ monthPublicHolidays' = phRows
         /\ publicHolidaysOnWorkdays' = holidaysOnWorkdays(phRows)
         /\ monthStats' = MonthStats(totalWorkHours, holidayCount, phRows,
                                     currentYear, currentMonth)
  /\ locationWindow' = LocationWindowOf(currentMonth, currentYear)
  /\ homePc' = "window"
  /\ UNCHANGED << homeUserId, dbUser, workLocationCalendars, todayLocation,
                  isTodayRestricted, todayRestrictionReason, showTodayLocationSection,
                  homeTables, addVars, genVars, delVars, viewVars, roleVars >>

\* lines 358-440: the records of the window return; the code runs up to await
\* shouldShowTodayLocationSection
HomeWindowFetched ==
  /\ homePc = "window"
  /\ LET nm == nextMonth(currentMonth)
         ny == nextYear(currentMonth, currentYear)
         locationEntries ==
           locationsByUserAndDateRange(dbUser, locationWindow.start, locationWindow.end)
         holidayEntries ==
           holidaysByUserAndDateRange(dbUser, locationWindow.start, locationWindow.end)
         allPublicHolidaysForWindow ==
           findByMonthAndYear(prevMonth(currentMonth), prevYear(currentMonth, currentYear))
             \cup monthPublicHolidays
             \cup findByMonthAndYear(nm, ny)
             \cup findByMonthAndYear(nextMonth2(nm), nextYear2(nm, ny))
         holidaySet == { formatDateObj(DateObj(h.holiday_date)) : h \in holidayEntries }
         publicHolidaySet ==
           { formatDateObj(DateObj(ph)) : ph \in allPublicHolidaysForWindow }
         calendars ==
           << buildLocationCalendar(prevMonth(currentMonth), prevYear(currentMonth, currentYear),
                                    locationEntries, holidaySet, publicHolidaySet),
              buildLocationCalendar(currentMonth, currentYear,
                                    locationEntries, holidaySet, publicHolidaySet),
              buildLocationCalendar(nm, ny, locationEntries, holidaySet, publicHolidaySet),
              buildLocationCalendar(nextMonth2(nm), nextYear2(nm, ny),
                                    locationEntries, holidaySet, publicHolidaySet) >>
     IN  /\ workLocationCalendars' = calendars
         /\ todayLocation' = locationValue(locationEntries, todayIso)
         /\ isTodayRestricted' = todayRestricted(todayInfo(calendars, todayIso))
         /\ todayRestrictionReason' = restrictionReason(todayInfo(calendars, todayIso))
  /\ homePc' = "section"
  /\ UNCHANGED << homeUserId, dbUser, monthPublicHolidays, monthStats,
                  publicHolidaysOnWorkdays, locationWindow, showTodayLocationSection,
                  homeTables, addVars, genVars, delVars, viewVars, roleVars >>

\* lines 443-459: shouldShowTodayLocationSection returns and the page is
\* rendered
HomeSectionChecked(show) ==
  /\ homePc = "section"
  /\ showTodayLocationSection' = show
  /\ homePc' = "done"
  /\ UNCHANGED << homeUserId, dbUser, monthPublicHolidays, monthStats,
                  publicHolidaysOnWorkdays, locationWindow, workLocationCalendars,
                  todayLocation, isTodayRestricted, todayRestrictionReason,
                  homeTables, addVars, genVars, delVars, viewVars, roleVars >>

\* lines 444-459: an awaited call rejects; the page is rendered with the
\* fallback statistics and whatever had been computed
HomeFailedKeepsStats ==
  /\ homePc \in {"user", "stats", "window", "section"}
  /\ homePc' = "caught"
  /\ UNCHANGED << homeUserId, dbUser, monthPublicHolidays, monthStats,
                  publicHolidaysOnWorkdays, locationWindow, workLocationCalendars,
                  todayLocation, isTodayRestricted, todayRestrictionReason,
                  showTodayLocationSection, homeTables, addVars, genVars, delVars, viewVars, roleVars >>

HomeFailed ==
  /\ homePc \in {"user", "stats", "window", "section"}
  /\ monthStats' = ZeroMonthStats
  /\ homePc' = "caught"
  /\ UNCHANGED << homeUserId, dbUser, monthPublicHolidays, publicHolidaysOnWorkdays,
                  locationWindow, workLocationCalendars, todayLocation,
                  isTodayRestricted, todayRestrictionReason, showTodayLocationSection,
                  homeTables, addVars, genVars, delVars, viewVars, roleVars >>

\* no home page request has been made
HomeRequestIdle ==
  /\ homePc = "idle" /\ homeUserId = 1 /\ dbUser = 0
  /\ monthPublicHolidays = {} /\ monthStats = NoMonthStats
  /\ publicHolidaysOnWorkdays = {} /\ locationWindow = NoLocationWindow
  /\ workLocationCalendars = <<>> /\ todayLocation = "null"
  /\ isTodayRestricted = FALSE /\ todayRestrictionReason = "null"
  /\ showTodayLocationSection = TRUE

HomeIdle ==
  /\ today = WindowFirst /\ monthlyHours = 0 /\ workLocations = {}
  /\ HomeRequestIdle

(***************************************************************************)
(* GET /holidays/employees/by-date and /by-person (routes/holidays.js).    *)
(* A query parameter is <<>> when absent or not a number and <<n>> when it *)
(* reads as the integer n.  An object keyed by strings is a sequence in    *)
(* the order the keys were inserted.  Each handler takes its reads in one  *)
(* step.                                                                   *)
(***************************************************************************)
\* lines 316-317: parseInt(q) || fallback; NaN and 0 are both falsy
parseIntOr(q, fallback) == IF q = <<>> \/ q[1] = 0 THEN fallback ELSE q[1]

\* lines 316 and 320
validMonth(q) == MathMax(1, MathMin(12, parseIntOr(q, currentMonth)))

\* lines 317 and 321
validYear(q) == MathMax(2020, MathMin(2030, parseIntOr(q, currentYear)))

\* the orders in which a query may return the rows of a set
Orderings(S) ==
  { f \in [1..Cardinality(S) -> S] :
      \A i, j \in 1..Cardinality(S) : i # j => f[i] # f[j] }

\* Holiday.findAllByDateRange(startDate, endDate)
findAllByDateRange(startDate, endDate) ==
  { r \in holidays :
      /\ DateLeq(NewDate(startDate), DateObj(r.holiday_date))
      /\ DateLeq(DateObj(r.holiday_date), NewDate(endDate)) }

\* WorkLocation.findAllByDateRange(startDate, endDate)
locationsAllByDateRange(startDate, endDate) ==
  { l \in workLocations :
      /\ DateLeq(NewDate(startDate), DateObj(l.work_date))
      /\ DateLeq(DateObj(l.work_date), NewDate(endDate)) }

userHolidaysOfAnyUser(allHolidays, uid) == allHolidays

\* lines 332-339 and 347: holidaysByUser[user.id] || []
userHolidaysOf(allHolidays, uid) == SelectSeq(allHolidays, LAMBDA h : h.user_id = uid)

\* utils/dateUtils formatDayAndMonthGenitive: the day and the month
formatDayAndMonthGenitive(date) == << CivilFromDays(date.t)[3], CivilFromDays(date.t)[2] >>

\* utils/dateUtils getDayOfWeekName: the name of the weekday, here its number
getDayOfWeekName(date) == getDay(date)

\* lines 368 and 514: user.name || user.email.split("@")[0]
displayName(user) == IF user.name # "" THEN user.name ELSE user.email[1]

\* lines 351-370: one holiday of one user enters holidaysByDate
addEmployee(byDate, holiday, user) ==
  LET dateStr  == formatDateObj(DateObj(holiday.holiday_date))
      employee == [id |-> user.id, name |-> displayName(user), email |-> user.email]
  IN  IF \E i \in 1..Len(byDate) : byDate[i].key = dateStr
      THEN [ i \in 1..Len(byDate) |->
               IF byDate[i].key = dateStr
               THEN [byDate[i] EXCEPT !.employees = Append(@, employee)]
               ELSE byDate[i] ]
      ELSE Append(byDate,
                  [ key         |-> dateStr,
                    date        |-> formatDayAndMonthGenitive(DateObj(holiday.holiday_date)),
                    day_of_week |-> getDayOfWeekName(DateObj(holiday.holiday_date)),
                    employees   |-> << employee >> ])

\* lines 350-371: the holidays of one user, in fetch order
RECURSIVE addUserHolidays(_, _, _)
addUserHolidays(byDate, user, userHolidays) ==
  IF userHolidays = << >>
  THEN byDate
  ELSE addUserHolidays(addEmployee(byDate, Head(userHolidays), user), user,
                       Tail(userHolidays))

\* lines 345-372: the users, in directory order
RECURSIVE groupByDate(_, _, _)
groupByDate(byDate, allUsers, allHolidays) ==
  IF allUsers = << >>
  THEN byDate
  ELSE groupByDate(addUserHolidays(byDate, Head(allUsers),
                                   userHolidaysOf(allHolidays, Head(allUsers).id)),
                   Tail(allUsers), allHolidays)

\* lines 390-404
ByDateFallbackPage ==
  [ month |-> currentMonth, year |-> currentYear, holidaysByDate |-> << >>,
    users |-> << >>, error |-> TRUE ]

\* lines 316-324
ByDateRequested(query) ==
  /\ byDatePc = "idle"
  /\ byDateQuery' = query
  /\ byDateRange' = [month |-> validMonth(query.month), year |-> validYear(query.year)]
  /\ byDatePc' = "fetch"
  /\ UNCHANGED << byDatePage, userDirectory, groupDirectory, publicHolidayNames, byPersonPc, byPersonQuery,
                  byPersonRange, byPersonPage, holidays, addVars, genVars, delVars,
                  homeVars, roleVars >>

\* lines 327-388
ByDateFetched ==
  /\ byDatePc = "fetch"
  /\ LET range == getMonthDateRange(byDateRange.year, byDateRange.month)
     IN  \E allHolidays \in Orderings(findAllByDateRange(range.startDate, range.endDate)) :
           byDatePage' = [ month          |-> byDateRange.month,
                           year           |-> byDateRange.year,
                           holidaysByDate |-> groupByDate(<< >>, userDirectory, allHolidays),
                           users          |-> userDirectory,
                           error          |-> FALSE ]
  /\ byDatePc' = "done"
  /\ UNCHANGED << byDateQuery, byDateRange, userDirectory, groupDirectory, publicHolidayNames, byPersonPc,
                  byPersonQuery, byPersonRange, byPersonPage, holidays, addVars,
                  genVars, delVars, homeVars, roleVars >>

\* lines 389-405: a query rejected
ByDateFailed ==
  /\ byDatePc = "fetch"
  /\ byDatePage' = ByDateFallbackPage
  /\ byDatePc' = "done"
  /\ UNCHANGED << byDateQuery, byDateRange, userDirectory, groupDirectory, publicHolidayNames, byPersonPc,
                  byPersonQuery, byPersonRange, byPersonPage, holidays, addVars,
                  genVars, delVars, homeVars, roleVars >>

\* lines 458-463
daysOfMonth(year, month) == [ d \in 1..daysInMonth(year, month) |-> <<year, month, d>> ]

\* lines 494-508; a day is taken for a public holiday when publicHolidaysMap
\* holds a truthy value for it, a non-empty name
remoteDatesOf(days, userWorkLocations, publicHolidaysMap, userHolidayDates) ==
  SelectSeq(days,
            LAMBDA dateStr :
              LET dayOfWeek       == getDay(NewDate(dateStr))
                  isWeekend       == dayOfWeek = 0 \/ dayOfWeek = 6
                  isPublicHoliday == /\ dateStr \in DOMAIN publicHolidaysMap
                                     /\ publicHolidaysMap[dateStr] # ""
                  isHoliday       == \E i \in 1..Len(userHolidayDates) : userHolidayDates[i] = dateStr
                  isRemote        == locationValue(userWorkLocations, dateStr) = "false"
              IN  isRemote /\ ~isWeekend /\ ~isPublicHoliday /\ ~isHoliday)

\* lines 486-521, with workLocationsByUser of lines 444-451
employeeData(user, days, allHolidays, allWorkLocations, publicHolidaysMap) ==
  LET userHolidays      == userHolidaysOf(allHolidays, user.id)
      userHolidayDates  == [ i \in 1..Len(userHolidays) |->
                               formatDateObj(DateObj(userHolidays[i].holiday_date)) ]
      userWorkLocations == { l \in allWorkLocations : l.user_id = user.id }
      remoteDates       == remoteDatesOf(days, userWorkLocations, publicHolidaysMap,
                                         userHolidayDates)
  IN  [ id              |-> user.id,
        name            |-> displayName(user),
        email           |-> user.email,
        holidays        |-> userHolidayDates,
        holidayCount    |-> Len(userHolidayDates),
        workLocations   |-> userWorkLocations,
        remoteDates     |-> remoteDates,
        remoteDaysCount |-> Len(remoteDates) ]

\* line 511
included(employee) == Len(employee.holidays) > 0 \/ Len(employee.remoteDates) > 0

\* lines 466-482: the keys of groupMap
groupMapIds(allGroups) == { g.id : g \in allGroups } \cup {0}

\* lines 470-481: the name groupMap holds for a key; the bucket 0 is written
\* last and so replaces a group of id 0
groupMapName(allGroups, gid) ==
  IF gid = 0 THEN "Bez grupy" ELSE (CHOOSE g \in allGroups : g.id = gid).name

\* Object.values(groupMap): integer keys in ascending order
RECURSIVE ascending(_)
ascending(ids) ==
  IF ids = {}
  THEN << >>
  ELSE LET least == CHOOSE i \in ids : \A j \in ids : i <= j
       IN  << least >> \o ascending(ids \ {least})

\* String.prototype.localeCompare on the names in use, which collate in the
\* order "Alfa", "beta", "Zeta"
localeCompare(a, b) ==
  LET LocaleOrder == << "Alfa", "beta", "Zeta" >>
      rank(name)  == CHOOSE i \in 1..Len(LocaleOrder) : LocaleOrder[i] = name
  IN  IF rank(a) < rank(b) THEN -1 ELSE IF rank(a) > rank(b) THEN 1 ELSE 0

\* lines 532-538
compareGroups(a, b) ==
  IF a.id = 0 THEN 1 ELSE IF b.id = 0 THEN -1 ELSE localeCompare(a.name, b.name)

sortGroupsKeepsOrder(groups) == groups

\* Array.prototype.sort: stable; an element goes before the first one it
\* compares less than
RECURSIVE sortGroups(_)
sortGroups(groups) ==
  IF groups = << >>
  THEN << >>
  ELSE LET sorted == sortGroups(SubSeq(groups, 1, Len(groups) - 1))
           last   == groups[Len(groups)]
           before == { i \in 1..Len(sorted) : compareGroups(last, sorted[i]) < 0 }
           at     == IF before = {} THEN Len(sorted) + 1
                     ELSE CHOOSE i \in before : \A j \in before : i <= j
       IN  SubSeq(sorted, 1, at - 1) \o << last >> \o SubSeq(sorted, at, Len(sorted))

\* lines 484-538: the groups rendered, when every included user's group
\* (line 524: user.group_id || 0) is a key of groupMap
groupedEmployeesOf(allUsers, allGroups, days, allHolidays, allWorkLocations, publicHolidaysMap) ==
  LET data(user) == employeeData(user, days, allHolidays, allWorkLocations,
                                 publicHolidaysMap)
      members(gid) == SelectSeq(allUsers,
                                LAMBDA user : user.group_id = gid /\ included(data(user)))
      group(gid) == [ id        |-> gid,
                      name      |-> groupMapName(allGroups, gid),
                      employees |-> [ i \in 1..Len(members(gid)) |-> data(members(gid)[i]) ] ]
      ids == ascending(groupMapIds(allGroups))
      all == [ i \in 1..Len(ids) |-> group(ids[i]) ]
  IN  sortGroups(SelectSeq(all, LAMBDA g : Len(g.employees) > 0))

\* line 525: groupMap[groupId] is undefined for an included user
groupMissing(allUsers, allGroups, days, allHolidays, allWorkLocations, publicHolidaysMap) ==
  \E i \in 1..Len(allUsers) :
    /\ included(employeeData(allUsers[i], days, allHolidays, allWorkLocations,
                             publicHolidaysMap))
    /\ allUsers[i].group_id \notin groupMapIds(allGroups)

\* lines 541-552: the employees of all groups whose count is positive
countEmployees(groupedEmployees, count) ==
  Cardinality({ ge \in { <<g, e>> : g \in 1..Len(groupedEmployees), e \in 1..Len(userDirectory) } :
                  /\ ge[2] <= Len(groupedEmployees[ge[1]].employees)
                  /\ groupedEmployees[ge[1]].employees[ge[2]][count] > 0 })

\* lines 571-586
ByPersonFallbackPage ==
  [ month |-> currentMonth, year |-> currentYear, groupedEmployees |-> << >>,
    daysInMonth |-> << >>, publicHolidays |-> << >>, totalEmployeesWithHolidays |-> 0,
    totalEmployeesWithRemoteWork |-> 0, error |-> TRUE ]

\* lines 412-420
ByPersonRequested(query) ==
  /\ byPersonPc = "idle"
  /\ byPersonQuery' = query
  /\ byPersonRange' = [month |-> validMonth(query.month), year |-> validYear(query.year)]
  /\ byPersonPc' = "fetch"
  /\ UNCHANGED << byPersonPage, userDirectory, groupDirectory, publicHolidayNames, byDatePc, byDateQuery,
                  byDateRange, byDatePage, holidays, addVars, genVars, delVars,
                  homeVars, roleVars >>

\* lines 422-569, and 570-587 when the user loop throws
ByPersonFetched ==
  /\ byPersonPc = "fetch"
  /\ LET month == byPersonRange.month
         year  == byPersonRange.year
         range == getMonthDateRange(year, month)
         publicHolidaysMap ==
           [ k \in { formatDateObj(DateObj(ph)) : ph \in findByMonthAndYear(month, year) } |->
               publicHolidayNames[DaysFromCivil(k[1], k[2], k[3])] ]
         allWorkLocations  == locationsAllByDateRange(range.startDate, range.endDate)
         days == daysOfMonth(year, month)
     IN  \E allHolidays \in Orderings(findAllByDateRange(range.startDate, range.endDate)) :
           IF groupMissing(userDirectory, groupDirectory, days, allHolidays,
                           allWorkLocations, publicHolidaysMap)
           THEN byPersonPage' = ByPersonFallbackPage
           ELSE LET groupedEmployees ==
                      groupedEmployeesOf(userDirectory, groupDirectory, days, allHolidays,
                                         allWorkLocations, publicHolidaysMap)
                IN  byPersonPage' =
                      [ month            |-> month,
                        year             |-> year,
                        groupedEmployees |-> groupedEmployees,
                        daysInMonth      |-> days,
                        publicHolidays   |-> publicHolidaysMap,
                        totalEmployeesWithHolidays |->
                          countEmployees(groupedEmployees, "holidayCount"),
                        totalEmployeesWithRemoteWork |->
                          countEmployees(groupedEmployees, "remoteDaysCount"),
                        error            |-> FALSE ]
  /\ byPersonPc' = "done"
  /\ UNCHANGED << byPersonQuery, byPersonRange, userDirectory, groupDirectory, publicHolidayNames, byDatePc,
                  byDateQuery, byDateRange, byDatePage, holidays, addVars, genVars,
                  delVars, homeVars, roleVars >>

\* lines 570-587: a query rejected
ByPersonFailed ==
  /\ byPersonPc = "fetch"
  /\ byPersonPage' = ByPersonFallbackPage
  /\ byPersonPc' = "done"
  /\ UNCHANGED << byPersonQuery, byPersonRange, userDirectory, groupDirectory, publicHolidayNames, byDatePc,
                  byDateQuery, byDateRange, byDatePage, holidays, addVars, genVars,
                  delVars, homeVars, roleVars >>

\* no view has been requested
ViewRequestIdle ==
  /\ byDatePc = "idle" /\ byPersonPc = "idle"
  /\ byDateQuery = [month |-> << >>, year |-> << >>] /\ byPersonQuery = byDateQuery
  /\ byDateRange = [month |-> 0, year |-> 0] /\ byPersonRange = byDateRange
  /\ byDatePage = [ month |-> 0, year |-> 0, holidaysByDate |-> << >>, users |-> << >>,
                    error |-> FALSE ]
  /\ byPersonPage = [ month |-> 0, year |-> 0, groupedEmployees |-> << >>,
                      daysInMonth |-> << >>, publicHolidays |-> << >>,
                      totalEmployeesWithHolidays |-> 0,
                      totalEmployeesWithRemoteWork |-> 0, error |-> FALSE ]

ViewIdle ==
  /\ userDirectory = << >> /\ groupDirectory = {}
  /\ publicHolidayNames = [ph \in publicHolidayTable |-> "Swieto"]
  /\ ViewRequestIdle

(***************************************************************************)
(* POST /admin/users/:id/role (index.js), one action per await.  A request *)
(* is told by the user who sends it.                                       *)
(***************************************************************************)
\* the roles the handler accepts (line 530)
validRoles == {"admin", "user", "manager"}

\* User.createFromAuth0(req.oidc.user): the row of the user as stored now
createFromAuth0(u) ==
  [id |-> u, role |-> userAccounts[u].role, is_blocked |-> userAccounts[u].is_blocked]

\* User.setRole(id, role)
setRole(id, role) == [userAccounts EXCEPT ![id].role = role]

\* lines 541-549: the success code of the new role
roleSuccessMessage(role) ==
  IF role = "admin" THEN "role_changed_to_admin"
  ELSE IF role = "manager" THEN "role_changed_to_manager"
  ELSE IF role = "user" THEN "role_changed_to_user"
  ELSE "role_updated"

RoleRespond(u, r) ==
  /\ rolePc' = [rolePc EXCEPT ![u] = "done"]
  /\ roleResponse' = [roleResponse EXCEPT ![u] = r]

\* lines 171-178: the request of user u arrives, with req.body.role an
\* accepted role, another string or nothing (""); requireAuth runs up to await
\* User.createFromAuth0
RoleUpdateRequested(u, authenticated, id, role) ==
  /\ rolePc[u] = "idle"
  /\ roleParamsId' = [roleParamsId EXCEPT ![u] = id]
  /\ roleBodyRole' = [roleBodyRole EXCEPT ![u] = role]
  /\ IF ~authenticated
     THEN RoleRespond(u, "login")
     ELSE /\ rolePc' = [rolePc EXCEPT ![u] = "auth"]
          /\ UNCHANGED roleResponse
  /\ UNCHANGED << userAccounts, roleReqUser, holidays, addVars, genVars, delVars,
                  homeVars, viewVars >>

\* lines 178-190, 205-214 and 526-539: createFromAuth0 returns; requireAuth,
\* requireAdmin and the handler run up to await User.setRole
RoleAuthenticated(u) ==
  /\ rolePc[u] = "auth"
  /\ LET user == createFromAuth0(u)
     IN  IF user.is_blocked
         THEN RoleRespond(u, "blocked") /\ UNCHANGED roleReqUser
         ELSE /\ roleReqUser' = [roleReqUser EXCEPT ![u] = user]
              /\ IF user.role # "admin"    \* !req.user.isAdmin()
                 THEN RoleRespond(u, "forbidden")
                 ELSE IF roleBodyRole[u] \notin validRoles
                 THEN RoleRespond(u, "invalid_role")
                 ELSE IF roleParamsId[u] = user.id /\ roleBodyRole[u] # "admin"
                 THEN RoleRespond(u, "cannot_demote_self")
                 ELSE /\ rolePc' = [rolePc EXCEPT ![u] = "set"]
                      /\ UNCHANGED roleResponse
  /\ UNCHANGED << userAccounts, roleParamsId, roleBodyRole, holidays, addVars,
                  genVars, delVars, homeVars, viewVars >>

\* lines 539-551: setRole returns and the success redirect is sent
RoleSet(u) ==
  /\ rolePc[u] = "set"
  /\ userAccounts' = setRole(roleParamsId[u], roleBodyRole[u])
  /\ RoleRespond(u, roleSuccessMessage(roleBodyRole[u]))
  /\ UNCHANGED << roleReqUser, roleParamsId, roleBodyRole, holidays, addVars,
                  genVars, delVars, homeVars, viewVars >>

\* lines 191-201 and 552-562: createFromAuth0 or setRole rejects
RoleFailed(u) ==
  /\ rolePc[u] \in {"auth", "set"}
  /\ RoleRespond(u, "error")
  /\ UNCHANGED << userAccounts, roleReqUser, roleParamsId, roleBodyRole, holidays,
                  addVars, genVars, delVars, homeVars, viewVars >>

\* the response has been sent and the request's locals are released
RoleFinish(u) ==
  /\ rolePc[u] = "done"
  /\ rolePc' = [rolePc EXCEPT ![u] = "idle"]
  /\ roleReqUser' = [roleReqUser EXCEPT ![u] = [id |-> 0, role |-> "", is_blocked |-> FALSE]]
  /\ roleParamsId' = [roleParamsId EXCEPT ![u] = u]
  /\ roleBodyRole' = [roleBodyRole EXCEPT ![u] = ""]
  /\ roleResponse' = [roleResponse EXCEPT ![u] = "none"]
  /\ UNCHANGED << userAccounts, holidays, addVars, genVars, delVars, homeVars,
                  viewVars >>

\* no role update has been requested
RoleRequestIdle ==
  /\ rolePc = [u \in Users |-> "idle"]
  /\ roleReqUser = [u \in Users |-> [id |-> 0, role |-> "", is_blocked |-> FALSE]]
  /\ roleParamsId = [u \in Users |-> u]
  /\ roleBodyRole = [u \in Users |-> ""]
  /\ roleResponse = [u \in Users |-> "none"]

RoleIdle ==
  /\ userAccounts = [u \in Users |-> [role |-> "admin", is_blocked |-> FALSE]]
  /\ RoleRequestIdle

\* the other handlers have no request in progress
OtherHandlersIdle == DeleteIdle /\ HomeIdle /\ ViewIdle /\ RoleIdle

(***************************************************************************)
(* Specifications.                                                         *)
(***************************************************************************)
GenIdle ==
  /\ genStart = NoString /\ genEnd = NoString /\ genHolidays = {}
  /\ genDates = <<>> /\ genDone = FALSE

Init ==
  /\ publicHolidayTable \in SUBSET PublicHolidayCandidates
  /\ holidays = {}
  /\ pc = [p \in Procs |-> "idle"]
  /\ userId = [p \in Procs |-> 1]
  /\ start_date = [p \in Procs |-> NoString]
  /\ end_date = [p \in Procs |-> NoString]
  /\ publicHolidays = [p \in Procs |-> {}]
  /\ holidayDates = [p \in Procs |-> <<>>]
  /\ pos = [p \in Procs |-> 0]
  /\ txn = [p \in Procs |-> {}]
  /\ response = [p \in Procs |-> NoResponse]
  /\ holidaysBefore = [p \in Procs |-> {}]
  /\ GenIdle
  /\ OtherHandlersIdle

\* requests run one after another: a request is taken up only when no other
\* request is being handled
PostHolidaySerial(p, uid, s, e) ==
  /\ \A q \in Procs : q # p => pc[q] = "idle"
  /\ PostHoliday(p, uid, s, e)

Next ==
  \/ \E p \in Procs, uid \in Users, s \in StartInputs, e \in EndInputs :
       PostHolidaySerial(p, uid, s, e)
  \/ \E p \in Procs : PublicHolidaysFetched(p)
  \/ \E p \in Procs : ExistenceChecked(p)
  \/ \E p \in Procs : Inserted(p)
  \/ \E p \in Procs : Committed(p)
  \/ \E p \in Procs : Failed(p)
  \/ \E p \in Procs : Finish(p)

Spec == Init /\ [][Next]_vars

\* requests interleave at their awaits
NextConcurrent ==
  \/ \E p \in Procs, uid \in Users, s \in StartInputs, e \in EndInputs :
       PostHoliday(p, uid, s, e)
  \/ \E p \in Procs : PublicHolidaysFetched(p)
  \/ \E p \in Procs : ExistenceChecked(p)
  \/ \E p \in Procs : Inserted(p)
  \/ \E p \in Procs : Committed(p)
  \/ \E p \in Procs : Failed(p)
  \/ \E p \in Procs : Finish(p)

SpecConcurrent == Init /\ [][NextConcurrent]_vars

\* one call of generateDateRange on arbitrary arguments
InitGen ==
  /\ publicHolidayTable = {}
  /\ holidays = {}
  /\ pc = [p \in Procs |-> "idle"]
  /\ userId = [p \in Procs |-> 1]
  /\ start_date = [p \in Procs |-> NoString]
  /\ end_date = [p \in Procs |-> NoString]
  /\ publicHolidays = [p \in Procs |-> {}]
  /\ holidayDates = [p \in Procs |-> <<>>]
  /\ pos = [p \in Procs |-> 0]
  /\ txn = [p \in Procs |-> {}]
  /\ response = [p \in Procs |-> NoResponse]
  /\ holidaysBefore = [p \in Procs |-> {}]
  /\ genStart \in GenStrings \cup {BadDateString}
  /\ genEnd \in GenStrings \cup {BadDateString}
  /\ genHolidays \in SUBSET GenWindow
  /\ genDates = <<>>
  /\ genDone = FALSE
  /\ OtherHandlersIdle

Generate ==
  /\ ~genDone
  /\ genDates' = generateDateRange(genStart, genEnd, genHolidays)
  /\ genDone' = TRUE
  /\ UNCHANGED << genStart, genEnd, genHolidays, reqVars, otherHandlerVars >>

NextGen == Generate

SpecGen == InitGen /\ [][NextGen]_vars

(***************************************************************************)
(* Properties of generateDateRange, checked under SpecGen.                 *)
(***************************************************************************)
IsWeekendDay(t) == getDay(DateObj(t)) \in {0, 6}

\* lexicographic order of canonical date strings
StrLess(a, b) ==
  \/ a[1] < b[1]
  \/ a[1] = b[1] /\ a[2] < b[2]
  \/ a[1] = b[1] /\ a[2] = b[2] /\ a[3] < b[3]

\* C1: every date generateDateRange returns is neither a Saturday/Sunday nor a
\* date of the public-holiday set passed in, and the returned sequence is
\* strictly ascending (so it holds no date twice).
C1_OnlyBusinessDaysAscending ==
  genDone =>
    \A i \in 1..Len(genDates) :
      /\ NewDate(genDates[i]).valid
      /\ ~IsWeekendDay(NewDate(genDates[i]).t)
      /\ NewDate(genDates[i]).t \notin genHolidays
      /\ i < Len(genDates) => StrLess(genDates[i], genDates[i + 1])

\* an interval from which a weekend day and a public holiday were left out and
\* two business days were returned
C1_Witness ==
  /\ genDone
  /\ Len(genDates) >= 2
  /\ \E t \in genHolidays :
       /\ ~IsWeekendDay(t)
       /\ NewDate(genStart).t < t /\ t < NewDate(genEnd).t
  /\ \E t \in NewDate(genStart).t .. NewDate(genEnd).t : IsWeekendDay(t)

\* C2: for start <= end, a day d of [start, end] is returned iff it is not a
\* weekend day and not in the public-holiday set passed in; nothing outside
\* [start, end] is returned and no qualifying day is left out.
C2_ExactlyTheBusinessDays ==
  (genDone /\ DateLeq(NewDate(genStart), NewDate(genEnd))) =>
    { genDates[i] : i \in 1..Len(genDates) } =
      { CivilFromDays(t) : t \in
          { u \in NewDate(genStart).t .. NewDate(genEnd).t :
              ~IsWeekendDay(u) /\ u \notin genHolidays } }

\* an interval whose last day is a business day, with a public holiday listed
\* outside the interval
C2_Witness ==
  /\ genDone
  /\ NewDate(genStart).valid /\ NewDate(genEnd).valid
  /\ NewDate(genStart).t < NewDate(genEnd).t
  /\ ~IsWeekendDay(NewDate(genEnd).t)
  /\ NewDate(genEnd).t \notin genHolidays
  /\ \E t \in genHolidays : t > NewDate(genEnd).t
  /\ Len(genDates) >= 1
  /\ genDates[Len(genDates)] = genEnd

(***************************************************************************)
(* Properties of the add-holiday request, checked under Spec.              *)
(***************************************************************************)
Done(p) == pc[p] = "done"

StartObj(p) == NewDate(start_date[p])

EndObj(p) == NewDate(actualEndDate(p))

ValidationErrors ==
  {"invalid_date", "weekend_not_allowed", "public_holiday_not_allowed", "no_valid_days"}

\* rule 1: the start date is missing or cannot be parsed
Rule1Fails(p) == start_date[p] = NoString \/ ~StartObj(p).valid

\* rule 2: the start date falls on a weekend
Rule2Fails(p) == StartObj(p).valid /\ IsWeekendDay(StartObj(p).t)

\* rule 3: the start date is a public holiday of the directory
Rule3Fails(p) == StartObj(p).valid /\ StartObj(p).t \in publicHolidayTable

\* the days of the interval that are business days
BusinessDaysOf(p) ==
  IF StartObj(p).valid /\ EndObj(p).valid
  THEN { t \in StartObj(p).t .. EndObj(p).t :
           ~IsWeekendDay(t) /\ t \notin publicHolidayTable }
  ELSE {}

\* rule 4: the interval holds no business day
Rule4Fails(p) == BusinessDaysOf(p) = {}

FirstFailingRule(p) ==
  IF Rule1Fails(p) THEN "invalid_date"
  ELSE IF Rule2Fails(p) THEN "weekend_not_allowed"
  ELSE IF Rule3Fails(p) THEN "public_holiday_not_allowed"
  ELSE IF Rule4Fails(p) THEN "no_valid_days"
  ELSE "none"

\* C3: the validation applies the rules InvalidDate, WeekendNotAllowed,
\* PublicHolidayNotAllowed, NoValidDays in this order and answers with the
\* first rule that fails; no later rule's outcome is returned while an earlier
\* rule fails.  (Requests that end in the generic failure are left aside.)
C3_FirstFailingRuleWins ==
  \A p \in Procs :
    (Done(p) /\ response[p].code # "failed") =>
      IF FirstFailingRule(p) = "none"
      THEN response[p].kind = "success"
      ELSE response[p] = ErrorRedirect(FirstFailingRule(p))

\* C4: a request whose start date is missing or cannot be parsed is answered
\* with invalid_date.  (Requests that end in the generic failure are left
\* aside.)
C4_MissingOrUnparseableStartIsInvalidDate ==
  \A p \in Procs :
    (Done(p) /\ Rule1Fails(p) /\ response[p].code # "failed") =>
      response[p] = ErrorRedirect("invalid_date")

\* C5: a request whose start date is a Saturday or Sunday is answered with
\* weekend_not_allowed whatever its end date, and it never reaches the
\* public-holiday lookup or the generation of days.
C5_WeekendStartRejectedBeforeLookup ==
  \A p \in Procs :
    (pc[p] # "idle" /\ Rule2Fails(p)) =>
      /\ Done(p)
      /\ response[p] = ErrorRedirect("weekend_not_allowed")
      /\ publicHolidays[p] = {}
      /\ holidayDates[p] = <<>>

\* the request 2024-05-04 (a Saturday, also listed as a public holiday) to
\* 2024-05-06 was rejected
C5_Witness ==
  \E p \in Procs :
    /\ Done(p)
    /\ start_date[p] = <<2024, 5, 4>>
    /\ end_date[p] = <<2024, 5, 6>>
    /\ DaysFromCivil(2024, 5, 4) \in publicHolidayTable
    /\ response[p] = ErrorRedirect("weekend_not_allowed")

\* C6: a request whose start date is a weekday listed in the holiday directory
\* is answered with public_holiday_not_allowed for every end date, absent or
\* earlier than the start included.  (Requests that end in the generic failure
\* or whose end date cannot be parsed are left aside.)
C6_PublicHolidayStartRejected ==
  \A p \in Procs :
    ( /\ Done(p)
      /\ response[p].code # "failed"
      /\ ~Rule1Fails(p) /\ ~Rule2Fails(p) /\ Rule3Fails(p)
      /\ EndObj(p).valid ) =>
      response[p] = ErrorRedirect("public_holiday_not_allowed")

\* the interval has exactly one day that is not a weekend day, and the holiday
\* directory lists that day
OnlyCandidateIsPublicHoliday(p) ==
  /\ StartObj(p).valid /\ EndObj(p).valid
  /\ StartObj(p).t <= EndObj(p).t
  /\ LET candidates == { t \in StartObj(p).t .. EndObj(p).t : ~IsWeekendDay(t) }
     IN  Cardinality(candidates) = 1 /\ candidates \subseteq publicHolidayTable

\* C7 as stated: a request over an interval whose only candidate day is a
\* known public holiday is answered with no_valid_days.
C7_OnlyCandidateHolidayIsNoValidDays ==
  \A p \in Procs :
    (Done(p) /\ response[p].code # "failed" /\ OnlyCandidateIsPublicHoliday(p)) =>
      response[p] = ErrorRedirect("no_valid_days")

\* C7 as amended: a request over an interval whose only candidate day is a
\* known public holiday is answered by a rule on the start date:
\* weekend_not_allowed when the interval starts on a weekend day, else
\* public_holiday_not_allowed; never no_valid_days.
C7_OnlyCandidateHolidayIsStartRule ==
  \A p \in Procs :
    (Done(p) /\ response[p].code # "failed" /\ OnlyCandidateIsPublicHoliday(p)) =>
      response[p] =
        IF IsWeekendDay(StartObj(p).t)
        THEN ErrorRedirect("weekend_not_allowed")
        ELSE ErrorRedirect("public_holiday_not_allowed")

\* the single-day request for Friday 2024-05-03, a listed public holiday, was
\* rejected
C7_Witness ==
  \E p \in Procs :
    /\ Done(p)
    /\ OnlyCandidateIsPublicHoliday(p)
    /\ start_date[p] = <<2024, 5, 3>>
    /\ actualEndDate(p) = <<2024, 5, 3>>
    /\ response[p] = ErrorRedirect("public_holiday_not_allowed")

\* C8: when a request ends in invalid_date, weekend_not_allowed,
\* public_holiday_not_allowed or no_valid_days, the holidays table is what it
\* was when the request arrived and the request holds no pending row.
C8_ValidationFailureChangesNothing ==
  \A p \in Procs :
    (Done(p) /\ response[p].code \in ValidationErrors) =>
      holidays = holidaysBefore[p] /\ txn[p] = {}

\* a request over several days starting on a listed public holiday was
\* rejected while the table already held rows
C8_Witness ==
  \E p \in Procs :
    /\ Done(p)
    /\ response[p] = ErrorRedirect("public_holiday_not_allowed")
    /\ BusinessDaysOf(p) # {}
    /\ holidays # {}

\* the day numbers of the dates the request generated
GeneratedDays(p) == { NewDate(holidayDates[p][i]).t : i \in 1..Len(holidayDates[p]) }

RowsOf(rows, uid, t) == { r \in rows : r.user_id = uid /\ r.holiday_date = t }

\* the table is the table before the request plus exactly one row for every
\* generated date that had none
AllInserted(p) ==
  LET new == holidays \ holidaysBefore[p]
  IN  /\ holidaysBefore[p] \subseteq holidays
      /\ \A r \in new :
           /\ r.user_id = userId[p]
           /\ r.holiday_date \in GeneratedDays(p)
           /\ RowsOf(holidaysBefore[p], r.user_id, r.holiday_date) = {}
      /\ \A t \in GeneratedDays(p) :
           RowsOf(holidaysBefore[p], userId[p], t) = {} =>
             Cardinality(RowsOf(new, userId[p], t)) = 1

\* C9: the write of one request is all-or-nothing.  While the request is in
\* flight no row of it is in the table; when it has ended, either it succeeded
\* and every generated date that had no row has exactly one, or the table is
\* what it was before; a request that opened its transaction ends in success
\* or in the generic failure.
C9_AllOrNothing ==
  \A p \in Procs :
    /\ pc[p] \in {"fetch", "select", "insert", "commit"} => holidays = holidaysBefore[p]
    /\ Done(p) =>
         IF response[p].kind = "success"
         THEN AllInserted(p)
         ELSE holidays = holidaysBefore[p]
    /\ (Done(p) /\ Len(holidayDates[p]) > 0) =>
         response[p].kind = "success" \/ response[p] = ErrorRedirect("failed")

\* a transaction that has inserted a row and still has dates to process
C9_Witness ==
  \E p \in Procs :
    /\ pc[p] = "select"
    /\ pos[p] >= 2
    /\ txn[p] # {}
    /\ holidays # {}
    /\ holidays = holidaysBefore[p]

\* C10: with requests run one after another, the table never holds two rows
\* for one (user, date); after a successful request every generated date has
\* exactly one row of the user, and a request all of whose dates already had a
\* row (a re-submission) leaves the table as it was.
C10_ResubmitAddsNoDuplicate ==
  /\ \A r1 \in holidays : \A r2 \in holidays :
       (r1.user_id = r2.user_id /\ r1.holiday_date = r2.holiday_date) => r1 = r2
  /\ \A p \in Procs :
       (Done(p) /\ response[p].kind = "success") =>
         /\ \A t \in GeneratedDays(p) : Cardinality(RowsOf(holidays, userId[p], t)) = 1
         /\ (\A t \in GeneratedDays(p) : RowsOf(holidaysBefore[p], userId[p], t) # {})
              => holidays = holidaysBefore[p]

\* a successful request over several days all of which already had a row of the
\* user, while the other user holds a row for one of these dates
C10_Witness ==
  \E p \in Procs :
    /\ Done(p)
    /\ response[p].kind = "success"
    /\ Len(holidayDates[p]) >= 2
    /\ \A t \in GeneratedDays(p) : RowsOf(holidaysBefore[p], userId[p], t) # {}
    /\ \E r \in holidays : r.user_id # userId[p] /\ r.holiday_date \in GeneratedDays(p)

(***************************************************************************)
(* Add-holiday requests of one user that interleave at their awaits.       *)
(***************************************************************************)
\* the user whose requests race
RaceUser == CHOOSE u \in Users : \A v \in Users : u <= v

\* NProcs requests arrive, one per request slot.  Every request starts on the
\* first day of the window (a Friday) and is either for that day alone or for
\* the days up to the Monday after it
RaceStartInputs == { CivilFromDays(WindowFirst) }

RaceEndInputs == { NoString, CivilFromDays(WindowFirst + 3) }

InitRace == Init /\ publicHolidayTable = {}

NextRace ==
  \/ \E p \in Procs, s \in RaceStartInputs, e \in RaceEndInputs :
       PostHoliday(p, RaceUser, s, e)
  \/ \E p \in Procs : PublicHolidaysFetched(p)
  \/ \E p \in Procs : ExistenceChecked(p)
  \/ \E p \in Procs : Inserted(p)
  \/ \E p \in Procs : Committed(p)
  \/ \E p \in Procs : Failed(p)

SpecRace == InitRace /\ [][NextRace]_vars

\* C11: the existence check is the only guard against a second record, and it
\* looks at committed rows only.  A request inserts no date that had a
\* record when the request arrived and no date twice, so the table never
\* holds more records of one (user, date) than there are requests in flight
\* together; requests that interleave do store two records of one (user,
\* date) (C11_Witness).
C11_DuplicateOnlyFromInterleaving ==
  /\ \A p \in Procs : \A r \in txn[p] :
       /\ RowsOf(holidaysBefore[p], r.user_id, r.holiday_date) = {}
       /\ RowsOf(txn[p], r.user_id, r.holiday_date) = {r}
  /\ \A r \in holidays :
       Cardinality(RowsOf(holidays, r.user_id, r.holiday_date)) <= NProcs

\* two requests of the user, both including the Friday, both answered with
\* success, and the table holds two records of the user for that Friday
C11_Witness ==
  \E p \in Procs : \E q \in Procs \ {p} :
    /\ Done(p) /\ Done(q)
    /\ response[p].kind = "success" /\ response[q].kind = "success"
    /\ userId[p] = userId[q]
    /\ holidaysBefore[p] = {} /\ holidaysBefore[q] = {}
    /\ WindowFirst \in GeneratedDays(p) \cap GeneratedDays(q)
    /\ Cardinality(RowsOf(holidays, userId[p], WindowFirst)) = 2

(***************************************************************************)
(* Delete requests on a table of stored holidays.                          *)
(***************************************************************************)
\* the rows the table may hold when a delete request arrives: one row per
\* user and business day of the window
StoredRowCandidates ==
  { [id |-> <<u, t, 1>>, user_id |-> u, holiday_date |-> t] :
      u \in Users, t \in { d \in Window : ~IsWeekendDay(d) } }

\* an id that no row carries
MissingId == <<0, 0, 0>>

DeleteIdInputs == { r.id : r \in StoredRowCandidates } \cup { MissingId }

InitDelete ==
  /\ publicHolidayTable = {}
  /\ holidays \in SUBSET StoredRowCandidates
  /\ pc = [p \in Procs |-> "idle"]
  /\ userId = [p \in Procs |-> 1]
  /\ start_date = [p \in Procs |-> NoString]
  /\ end_date = [p \in Procs |-> NoString]
  /\ publicHolidays = [p \in Procs |-> {}]
  /\ holidayDates = [p \in Procs |-> <<>>]
  /\ pos = [p \in Procs |-> 0]
  /\ txn = [p \in Procs |-> {}]
  /\ response = [p \in Procs |-> NoResponse]
  /\ holidaysBefore = [p \in Procs |-> {}]
  /\ GenIdle
  /\ OtherHandlersIdle

\* one delete request on an arbitrary table
NextDelete ==
  \/ \E uid \in Users, admin \in BOOLEAN, id \in DeleteIdInputs :
       DeleteRequested(uid, admin, id)
  \/ HolidayFound
  \/ HolidayDeleted
  \/ DeleteFailed

SpecDelete == InitDelete /\ [][NextDelete]_vars

\* the rows the id of the request named when the request arrived
DeleteTarget == { r \in delBefore : r.id = delId }

RequesterMayDelete == delIsAdmin \/ \A r \in DeleteTarget : r.user_id = delUserId

\* C12: a delete request removes a record only when the requester owns it or
\* is an administrator.  Until the request is answered the table is as it was;
\* a requester who is neither owner nor administrator gets not_found (unless
\* the lookup itself failed) and nothing is removed; when the id names no
\* record nothing is removed; the answer "deleted" means that exactly the one
\* record with the id, and no other, has been removed.
C12_DeleteOnlyByOwnerOrAdmin ==
  /\ delPc \in {"find", "delete"} => holidays = delBefore
  /\ delPc = "done" =>
       /\ holidays # delBefore => RequesterMayDelete /\ delResponse = DeletedRedirect
       /\ (~delIsAdmin /\ (DeleteTarget = {} \/ ~RequesterMayDelete)) =>
            /\ holidays = delBefore
            /\ delResponse.code # "failed" => delResponse = ErrorRedirect("not_found")
       /\ DeleteTarget = {} => holidays = delBefore
       /\ delResponse = DeletedRedirect =>
            /\ Cardinality(DeleteTarget) = 1
            /\ holidays = delBefore \ DeleteTarget

\* an administrator deleted another user's record; the owner's other record
\* and the administrator's own record for the same date are still stored
C12_Witness ==
  /\ delPc = "done"
  /\ delResponse = DeletedRedirect
  /\ delIsAdmin
  /\ \E r \in DeleteTarget :
       /\ r.user_id # delUserId
       /\ r \notin holidays
       /\ \E o \in holidays : o.user_id = r.user_id
       /\ \E o \in holidays : o.user_id = delUserId /\ o.holiday_date = r.holiday_date

(***************************************************************************)
(* Add-holiday requests that start on the Thursday before the window.      *)
(***************************************************************************)
\* Thursday 2024-05-02: no weekend day and never a listed public holiday
FlagStartInputs == { CivilFromDays(WindowFirst - 1) }

\* no end date, or an end date from that Thursday to the Monday after it
FlagEndInputs ==
  { NoString } \cup { CivilFromDays(t) : t \in (WindowFirst - 1)..(WindowFirst + 3) }

NextFlags ==
  \/ \E p \in Procs, uid \in Users, s \in FlagStartInputs, e \in FlagEndInputs :
       PostHolidaySerial(p, uid, s, e)
  \/ \E p \in Procs : PublicHolidaysFetched(p)
  \/ \E p \in Procs : ExistenceChecked(p)
  \/ \E p \in Procs : Inserted(p)
  \/ \E p \in Procs : Committed(p)
  \/ \E p \in Procs : Failed(p)
  \/ \E p \in Procs : Finish(p)

SpecFlags == Init /\ [][NextFlags]_vars

\* the days of the interval [start, end] of the request
IntervalDays(p) == StartObj(p).t .. EndObj(p).t

IntervalHasWeekend(p) == \E t \in IntervalDays(p) : IsWeekendDay(t)

IntervalHasPublicHoliday(p) == \E t \in IntervalDays(p) : t \in publicHolidays[p]

\* C13: the success redirect of a request says "weekends excluded" iff the
\* interval [start, end] holds a Saturday or Sunday and "holidays excluded"
\* iff it holds a date of the fetched public holidays, both when both hold,
\* and it says neither exactly when every day of the interval was generated.
C13_ExclusionFlags ==
  \A p \in Procs :
    (Done(p) /\ response[p].kind = "success") =>
      /\ response[p].suffix \in {"_weekends_excluded", "_weekends_and_holidays_excluded"}
           <=> IntervalHasWeekend(p)
      /\ response[p].suffix \in {"_holidays_excluded", "_weekends_and_holidays_excluded"}
           <=> IntervalHasPublicHoliday(p)
      /\ response[p].suffix = ""
           <=> Len(holidayDates[p]) = Cardinality(IntervalDays(p))

\* the request 2024-05-02 to 2024-05-03 succeeded with the Friday a public
\* holiday: one day was added and only "holidays excluded" is reported
C13_Witness ==
  \E p \in Procs :
    /\ Done(p)
    /\ start_date[p] = <<2024, 5, 2>>
    /\ end_date[p] = <<2024, 5, 3>>
    /\ publicHolidays[p] = { DaysFromCivil(2024, 5, 3) }
    /\ response[p] = [kind |-> "success", code |-> "added", days |-> 0,
                      suffix |-> "_holidays_excluded"]

(***************************************************************************)
(* One home page request on arbitrary tables.                              *)
(***************************************************************************)
\* the days the clock may show: the 15th of every month of 2024, and Friday
\* 2024-05-03 to Monday 2024-05-06
HomeTodays ==
  { DaysFromCivil(2024, m, 15) : m \in 1..12 }
    \cup (DaysFromCivil(2024, 5, 3) .. DaysFromCivil(2024, 5, 6))

\* totals of worked hours: none, 100 h, 100.004 h, 100.005 h, 168 h, 200 h
WorkedHoursInputs == { 0, 100 * Hour, 100 * Hour + 4, 100 * Hour + 5, 168 * Hour, 200 * Hour }

\* stored holidays: user 2 has Monday 2024-05-06; user 1 any of Friday
\* 2024-05-03 and Monday 2024-05-06
HomeHolidayTables ==
  { { [id |-> <<2, DaysFromCivil(2024, 5, 6), 1>>, user_id |-> 2,
       holiday_date |-> DaysFromCivil(2024, 5, 6)] } \cup rows :
      rows \in SUBSET { [id |-> <<1, t, 1>>, user_id |-> 1, holiday_date |-> t] :
                          t \in { DaysFromCivil(2024, 5, 3), DaysFromCivil(2024, 5, 6) } } }

\* stored work locations: none, or user 1 remote on Friday 2024-05-03 and
\* on site on Monday 2024-05-06
HomeLocationTables ==
  { {},
    { [user_id |-> 1, work_date |-> DaysFromCivil(2024, 5, 3), is_onsite |-> FALSE],
      [user_id |-> 1, work_date |-> DaysFromCivil(2024, 5, 6), is_onsite |-> TRUE] } }

HomeUsers == { CHOOSE u \in Users : \A v \in Users : u <= v }

InitHome ==
  /\ publicHolidayTable \in SUBSET PublicHolidayCandidates
  /\ holidays \in HomeHolidayTables
  /\ \/ /\ today \in { DaysFromCivil(2024, 2, 15), DaysFromCivil(2024, 5, 15) }
        /\ monthlyHours \in WorkedHoursInputs
        /\ workLocations = {}
     \/ /\ today \in HomeTodays
        /\ monthlyHours = 0
        /\ workLocations \in HomeLocationTables
  /\ pc = [p \in Procs |-> "idle"]
  /\ userId = [p \in Procs |-> 1]
  /\ start_date = [p \in Procs |-> NoString]
  /\ end_date = [p \in Procs |-> NoString]
  /\ publicHolidays = [p \in Procs |-> {}]
  /\ holidayDates = [p \in Procs |-> <<>>]
  /\ pos = [p \in Procs |-> 0]
  /\ txn = [p \in Procs |-> {}]
  /\ response = [p \in Procs |-> NoResponse]
  /\ holidaysBefore = [p \in Procs |-> {}]
  /\ GenIdle
  /\ DeleteIdle
  /\ HomeRequestIdle
  /\ ViewIdle
  /\ RoleIdle

NextHome ==
  \/ \E authenticated \in BOOLEAN, uid \in HomeUsers : HomeRequested(authenticated, uid)
  \/ HomeUserCreated
  \/ HomeStatsFetched
  \/ HomeWindowFetched
  \/ \E show \in BOOLEAN : HomeSectionChecked(show)
  \/ HomeFailed

SpecHome == InitHome /\ [][NextHome]_vars

\* the statistics have been computed and no fallback has replaced them
StatsComputed ==
  \/ homePc \in {"window", "section"}
  \/ homePc = "done" /\ monthStats # NoMonthStats

\* C14: requiredMonthlyHours is (weekdays of the month - number of all public
\* holidays fetched for the month) * 8 hours, a holiday on a Saturday or
\* Sunday counted like any other; February 2024 has 21 weekdays and May 2024
\* has 23, so February 2024 without public holidays requires 168 hours.
C14_RequiredMonthlyHours ==
  StatsComputed =>
    /\ monthStats.requiredMonthlyHours =
         (getWeekdaysInMonth(currentYear, currentMonth) - Cardinality(monthPublicHolidays))
           * 8 * Hour
    /\ monthPublicHolidays = findByMonthAndYear(currentMonth, currentYear)
    /\ (currentYear = 2024 /\ currentMonth = 2 /\ monthPublicHolidays = {}) =>
         monthStats.requiredMonthlyHours = 168 * Hour
    /\ (currentYear = 2024 /\ currentMonth = 5) =>
         monthStats.requiredMonthlyHours = (23 - Cardinality(monthPublicHolidays)) * 8 * Hour

\* May 2024 with the public holidays Saturday 2024-05-04 and Monday
\* 2024-05-06: both are subtracted, 168 hours are required
C14_Witness ==
  /\ StatsComputed
  /\ currentYear = 2024 /\ currentMonth = 5
  /\ monthPublicHolidays = { DaysFromCivil(2024, 5, 4), DaysFromCivil(2024, 5, 6) }
  /\ monthStats.requiredMonthlyHours = 168 * Hour
  /\ monthStats.publicHolidaysCount = 1

\* the amounts by which the worked hours are increased: 0.001 h, 0.005 h,
\* 0.01 h, 1 h, 8 h, 100 h
HourIncrements == { 1, 5, Hour \div 100, Hour, 8 * Hour, 100 * Hour }

\* the statistics of the request's month had the worked hours been w
StatsWithWorked(w) ==
  MonthStats(w, monthStats.holidayCount, monthPublicHolidays, currentYear, currentMonth)

\* required - combined, before any rounding, had the worked hours been w
ExactDeficit(w) ==
  monthStats.requiredMonthlyHours - (w + monthStats.holidayCount * 8 * Hour)

WholeHundredths(x) == x % (Hour \div 100) = 0

WeekdayHolidays(phRows) == { ph \in phRows : ~IsWeekendDay(ph) }

\* the sets of public holidays the month of the request may have
MonthHolidaySets ==
  SUBSET { ph \in PublicHolidayCandidates :
             CivilFromDays(ph)[1] = currentYear /\ CivilFromDays(ph)[2] = currentMonth }

\* the statistics of the request's month had its public holidays been phRows
StatsWithHolidays(phRows) ==
  MonthStats(monthlyHours, monthStats.holidayCount, phRows, currentYear, currentMonth)

\* C16 as stated: totalCombinedHours is workedHours + holidayDayCount * 8 and
\* is the same for every set of public holidays; publicHolidayHours is 8 times
\* the number of public holidays on Monday-Friday.
C16_CombinedExact ==
  StatsComputed =>
    /\ monthStats.totalCombinedHours = monthlyHours + monthStats.holidayCount * 8 * Hour
    /\ monthStats.publicHolidayHours = 8 * Hour * Cardinality(WeekdayHolidays(monthPublicHolidays))
    /\ \A phRows \in MonthHolidaySets :
         StatsWithHolidays(phRows).totalCombinedHours = monthStats.totalCombinedHours

\* C16 as amended: totalCombinedHours is workedHours + holidayDayCount * 8
\* rounded to two decimals (so equal to it when the worked hours are whole
\* hundredths) and is the same for every set of public holidays;
\* publicHolidayHours is 8 times the number of public holidays on
\* Monday-Friday; the holiday count is the number of the user's stored
\* holidays of the month.
C16_CombinedRounded ==
  StatsComputed =>
    /\ monthStats.totalCombinedHours =
         Round2(monthlyHours + monthStats.holidayCount * 8 * Hour)
    /\ WholeHundredths(monthlyHours) =>
         monthStats.totalCombinedHours = monthlyHours + monthStats.holidayCount * 8 * Hour
    /\ monthStats.holidayCount =
         Cardinality({ r \in holidays :
           r.user_id = dbUser /\ CivilFromDays(r.holiday_date)[2] = currentMonth })
    /\ monthStats.totalHolidayHours = monthStats.holidayCount * 8 * Hour
    /\ monthStats.publicHolidayHours = 8 * Hour * Cardinality(WeekdayHolidays(monthPublicHolidays))
    /\ \A phRows \in MonthHolidaySets :
         StatsWithHolidays(phRows).totalCombinedHours = monthStats.totalCombinedHours

\* 100 hours worked and two holidays in a month with a public holiday on a
\* Friday and one on a Saturday: 116 combined hours, 8 public-holiday hours
C16_Witness ==
  /\ StatsComputed
  /\ monthlyHours = 100 * Hour
  /\ monthStats.holidayCount = 2
  /\ monthPublicHolidays = { DaysFromCivil(2024, 5, 3), DaysFromCivil(2024, 5, 4) }
  /\ monthStats.totalCombinedHours = 116 * Hour
  /\ monthStats.publicHolidayHours = 8 * Hour

\* the calendars have been built
CalendarsBuilt ==
  homePc \in {"section", "done", "caught"} /\ Len(workLocationCalendars) = 4

\* the number of the calendar's month, counted from year 0
MonthIndex(calendar) == calendar.year * 12 + calendar.month

\* C19: the calendars are those of the previous month, the current month, the
\* next month and the month after next: each is the calendar month right after
\* the one before it, the year growing by one exactly after a December; each
\* holds the days of its month; the fetched window runs from the first day of
\* the first month to the last day of the last.
C19_FourConsecutiveMonths ==
  /\ homePc \in {"window", "section"} =>
       locationWindow = LocationWindowOf(currentMonth, currentYear)
  /\ CalendarsBuilt =>
       /\ workLocationCalendars[2].month = currentMonth
       /\ workLocationCalendars[2].year = currentYear
       /\ \A i \in 1..4 : workLocationCalendars[i].month \in 1..12
       /\ \A i \in 1..3 :
            /\ MonthIndex(workLocationCalendars[i + 1]) = MonthIndex(workLocationCalendars[i]) + 1
            /\ workLocationCalendars[i + 1].year =
                 IF workLocationCalendars[i].month = 12
                 THEN workLocationCalendars[i].year + 1
                 ELSE workLocationCalendars[i].year
       /\ \A i \in 1..4 :
            LET days == workLocationCalendars[i].days
                first == DaysFromCivil(workLocationCalendars[i].year,
                                       workLocationCalendars[i].month, 1)
            IN  /\ \A d \in 1..Len(days) : days[d].date = CivilFromDays(first + d - 1)
                /\ CivilFromDays(first + Len(days))[3] = 1
       /\ locationWindow.start = workLocationCalendars[1].days[1].date
       /\ locationWindow.end =
            workLocationCalendars[4].days[Len(workLocationCalendars[4].days)].date

\* in November 2024 the calendars are October, November and December 2024
\* and January 2025, fetched from 2024-10-01 to 2025-01-31
C19_Witness ==
  /\ CalendarsBuilt
  /\ currentYear = 2024 /\ currentMonth = 11
  /\ [ i \in 1..4 |-> <<workLocationCalendars[i].year, workLocationCalendars[i].month>> ]
       = << <<2024, 10>>, <<2024, 11>>, <<2024, 12>>, <<2025, 1>> >>
  /\ locationWindow = [start |-> <<2024, 10, 1>>, end |-> <<2025, 1, 31>>]

TodayIsWeekend == IsWeekendDay(today)

TodayIsHoliday == \E r \in holidays : r.user_id = dbUser /\ r.holiday_date = today

TodayIsPublicHoliday == today \in publicHolidayTable

\* C20: today is restricted iff it is a weekend day, a holiday of the user or
\* a public holiday; the reason is the public holiday ("swieto") whenever
\* today is one, else the personal holiday ("urlop") when today is one, else
\* the weekend, and there is no reason exactly when today is not restricted.
C20_TodayRestriction ==
  CalendarsBuilt =>
    /\ isTodayRestricted <=> (TodayIsWeekend \/ TodayIsHoliday \/ TodayIsPublicHoliday)
    /\ todayRestrictionReason =
         IF TodayIsPublicHoliday THEN "swieto"
         ELSE IF TodayIsHoliday THEN "urlop"
         ELSE IF TodayIsWeekend THEN "weekend"
         ELSE "null"
    /\ todayRestrictionReason = "null" <=> ~isTodayRestricted

\* today, Friday 2024-05-03, is a holiday of the user and a public holiday:
\* the reason given is the public holiday
C20_Witness ==
  /\ CalendarsBuilt
  /\ today = DaysFromCivil(2024, 5, 3)
  /\ TodayIsHoliday /\ TodayIsPublicHoliday /\ ~TodayIsWeekend
  /\ isTodayRestricted
  /\ todayRestrictionReason = "swieto"

(***************************************************************************)
(* One request of an employee view on arbitrary tables.                    *)
(***************************************************************************)
\* the query values: absent, and integers below, inside and above the ranges
ViewQueries ==
  { [month |-> m, year |-> y] :
      m \in { << >>, << -3 >>, << 0 >>, << 1 >>, << 5 >>, << 12 >>, << 13 >> },
      y \in { << >>, << 0 >>, << 1999 >>, << 2020 >>, << 2024 >>, << 2030 >>, << 2050 >> } }

\* the user directory, in either order: Ann in group 1, and a user without
\* name or group
UserDirectories ==
  LET Ann(g)     == [ id |-> 1, name |-> "Ann", email |-> << "ann", "example.com" >>,
                      group_id |-> g ]
      Unnamed(g) == [ id |-> 2, name |-> "", email |-> << "bob", "example.com" >>,
                      group_id |-> g ]
  IN  { << Ann(1), Unnamed(0) >>, << Unnamed(0), Ann(1) >>,
        \* Ann is no longer in the directory
        << Unnamed(0) >>,
        \* both users in named groups
        << Ann(1), Unnamed(2) >>,
        \* Ann's group 7 is not in the group directory
        << Ann(7), Unnamed(0) >> }

GroupDirectories == { { [id |-> 1, name |-> "Zeta"], [id |-> 2, name |-> "Alfa"] } }

\* stored holidays: those of the home page, or user 1 twice on Monday
\* 2024-05-06 and user 2 on Friday 2024-05-03 and on that Monday
ViewHolidayTables ==
  HomeHolidayTables \cup
    { { [id |-> <<1, DaysFromCivil(2024, 5, 6), 1>>, user_id |-> 1,
         holiday_date |-> DaysFromCivil(2024, 5, 6)],
        [id |-> <<1, DaysFromCivil(2024, 5, 6), 2>>, user_id |-> 1,
         holiday_date |-> DaysFromCivil(2024, 5, 6)],
        [id |-> <<2, DaysFromCivil(2024, 5, 3), 1>>, user_id |-> 2,
         holiday_date |-> DaysFromCivil(2024, 5, 3)],
        [id |-> <<2, DaysFromCivil(2024, 5, 6), 1>>, user_id |-> 2,
         holiday_date |-> DaysFromCivil(2024, 5, 6)] } }

\* stored work locations: those of the home page, or user 1 remote on
\* Saturday 2024-05-04 and Monday 2024-05-06 and user 2 on site on Tuesday
\* 2024-05-07
ViewLocationTables ==
  HomeLocationTables \cup
    { { [user_id |-> 1, work_date |-> DaysFromCivil(2024, 5, d), is_onsite |-> FALSE] :
          d \in {4, 6} }
        \cup { [user_id |-> 2, work_date |-> DaysFromCivil(2024, 5, 7), is_onsite |-> TRUE] } }

\* the holiday directory is empty or lists Monday 2024-05-06
InitViews ==
  /\ publicHolidayTable \in { {}, { DaysFromCivil(2024, 5, 6) } }
  /\ holidays \in ViewHolidayTables
  /\ today = DaysFromCivil(2024, 5, 15)
  /\ monthlyHours = 0
  /\ workLocations \in ViewLocationTables
  /\ userDirectory \in UserDirectories
  /\ groupDirectory \in GroupDirectories
  /\ publicHolidayNames \in [publicHolidayTable -> {"", "Swieto"}]
  /\ pc = [p \in Procs |-> "idle"]
  /\ userId = [p \in Procs |-> 1]
  /\ start_date = [p \in Procs |-> NoString]
  /\ end_date = [p \in Procs |-> NoString]
  /\ publicHolidays = [p \in Procs |-> {}]
  /\ holidayDates = [p \in Procs |-> <<>>]
  /\ pos = [p \in Procs |-> 0]
  /\ txn = [p \in Procs |-> {}]
  /\ response = [p \in Procs |-> NoResponse]
  /\ holidaysBefore = [p \in Procs |-> {}]
  /\ GenIdle
  /\ DeleteIdle
  /\ HomeRequestIdle
  /\ ViewRequestIdle
  /\ RoleIdle

\* a request made while no other page is being served
ByDateRequestedAlone(query) ==
  /\ byPersonPc = "idle" /\ homePc = "idle"
  /\ ByDateRequested(query)

ByPersonRequestedAlone(query) ==
  /\ byDatePc = "idle" /\ homePc = "idle"
  /\ ByPersonRequested(query)

NextViews ==
  \/ \E query \in ViewQueries : ByDateRequestedAlone(query)
  \/ ByDateFetched
  \/ ByDateFailed
  \/ \E query \in ViewQueries : ByPersonRequestedAlone(query)
  \/ ByPersonFetched
  \/ ByPersonFailed

SpecViews == InitViews /\ [][NextViews]_vars

\* an integer clamped to [lo, hi]
Clamped(n, lo, hi) == IF n < lo THEN lo ELSE IF n > hi THEN hi ELSE n

\* the month and the year a view uses are the supplied ones, clamped
SuppliedClamped(viewPc, query, range) ==
  viewPc # "idle" =>
    /\ query.month # << >> => range.month = Clamped(query.month[1], 1, 12)
    /\ query.year # << >> => range.year = Clamped(query.year[1], 2020, 2030)

\* C18: for every integer month and year supplied to the by-date and the
\* by-person view, the month used is the supplied month clamped to [1, 12]
\* and the year used is the supplied year clamped to [2020, 2030].  Violated:
\* a supplied 0 is taken as absent, and the month and year of the clock are
\* used.
C18_SuppliedMonthYearClamped ==
  /\ SuppliedClamped(byDatePc, byDateQuery, byDateRange)
  /\ SuppliedClamped(byPersonPc, byPersonQuery, byPersonRange)

(***************************************************************************)
(* The three read views requested side by side.                            *)
(***************************************************************************)
\* May 2024 asked for, and nothing asked for
PageQueries == { [month |-> << 5 >>, year |-> << 2024 >>], [month |-> << >>, year |-> << >>] }

InitPages ==
  /\ InitViews
  /\ publicHolidayTable # {}
  /\ \A ph \in publicHolidayTable : publicHolidayNames[ph] # ""
  /\ holidays \in HomeHolidayTables
  /\ workLocations \in HomeLocationTables
  /\ Len(userDirectory) = 2
  /\ userDirectory[1].group_id = 1 /\ userDirectory[2].group_id = 0

NextPages ==
  \/ \E authenticated \in BOOLEAN, uid \in HomeUsers : HomeRequested(authenticated, uid)
  \/ HomeUserCreated
  \/ HomeStatsFetched
  \/ HomeWindowFetched
  \/ \E show \in BOOLEAN : HomeSectionChecked(show)
  \/ HomeFailed
  \/ \E query \in PageQueries : ByDateRequested(query)
  \/ ByDateFetched
  \/ ByDateFailed
  \/ \E query \in PageQueries : ByPersonRequested(query)
  \/ ByPersonFetched
  \/ ByPersonFailed

SpecPages == InitPages /\ [][NextPages]_vars

\* C17: when a fetch fails, each read view renders an empty or zeroed
\* structure: the home page renders statistics with all eight fields 0, the
\* by-date view an empty date map, the by-person view an empty group list
\* with both counters 0.
C17_FailureRendersEmpty ==
  /\ homePc = "caught" =>
       /\ monthStats.totalWorkHours = 0 /\ monthStats.holidayCount = 0
       /\ monthStats.totalHolidayHours = 0 /\ monthStats.publicHolidaysCount = 0
       /\ monthStats.publicHolidayHours = 0 /\ monthStats.totalCombinedHours = 0
       /\ monthStats.requiredMonthlyHours = 0 /\ monthStats.remainingHours = 0
  /\ (byDatePc = "done" /\ byDatePage.error) => byDatePage.holidaysByDate = << >>
  /\ (byPersonPc = "done" /\ byPersonPage.error) =>
       /\ byPersonPage.groupedEmployees = << >>
       /\ byPersonPage.totalEmployeesWithHolidays = 0
       /\ byPersonPage.totalEmployeesWithRemoteWork = 0

\* all three views have failed although the month of the request has
\* holidays stored, the home page after its calendars were built
C17_Witness ==
  /\ homePc = "caught" /\ Len(workLocationCalendars) = 4
  /\ byDatePc = "done" /\ byDatePage.error
  /\ byPersonPc = "done" /\ byPersonPage.error
  /\ findAllByDateRange(<<2024, 5, 1>>, <<2024, 5, 31>>) # {}
  /\ byDateRange = [month |-> 5, year |-> 2024]
  /\ byPersonRange = [month |-> 5, year |-> 2024]

(***************************************************************************)
(* Properties of the by-date view, checked under SpecViews.                *)
(***************************************************************************)
\* the by-date page was rendered from fetched data
ByDateRendered == byDatePc = "done" /\ ~byDatePage.error

\* the stored holidays of the month the by-date view shows
ByDateRows ==
  { r \in holidays : /\ CivilFromDays(r.holiday_date)[1] = byDateRange.year
                     /\ CivilFromDays(r.holiday_date)[2] = byDateRange.month }

\* the position of a user id in the user directory, 0 when absent
DirectoryPos(uid) ==
  IF \E i \in 1..Len(userDirectory) : userDirectory[i].id = uid
  THEN CHOOSE i \in 1..Len(userDirectory) : userDirectory[i].id = uid
  ELSE 0

\* the records of directory users on the day written dateStr
RecordsOn(rows, dateStr) ==
  { r \in rows : CivilFromDays(r.holiday_date) = dateStr /\ DirectoryPos(r.user_id) > 0 }

\* when a date is first met under the fetch order ord: the directory position
\* of the first user who has it, and the place in ord of that user's first
\* record of it
FirstMet(ord, dateStr) ==
  LET users == { DirectoryPos(ord[k].user_id) :
                   k \in { k \in 1..Len(ord) : ord[k] \in RecordsOn(ByDateRows, dateStr) } }
      first == CHOOSE u \in users : \A v \in users : u <= v
      at    == CHOOSE k \in 1..Len(ord) :
                 /\ ord[k] \in RecordsOn(ByDateRows, dateStr)
                 /\ DirectoryPos(ord[k].user_id) = first
                 /\ \A j \in 1..(k - 1) :
                      ~(ord[j] \in RecordsOn(ByDateRows, dateStr)
                        /\ DirectoryPos(ord[j].user_id) = first)
  IN  first * (Len(ord) + 1) + at

\* C21: in the by-date view every date key lists one employee per holiday
\* record of a directory user on that date, in directory order; records of
\* users outside the directory add nothing; and the keys stand in the order
\* in which the dates are first met scanning the users in directory order and
\* each user's records in fetch order.
C21_ByDateEntries ==
  ByDateRendered =>
    LET byDate == byDatePage.holidaysByDate
    IN  /\ \A i, j \in 1..Len(byDate) : i # j => byDate[i].key # byDate[j].key
        /\ { byDate[i].key : i \in 1..Len(byDate) }
             = { CivilFromDays(r.holiday_date) :
                   r \in { r \in ByDateRows : DirectoryPos(r.user_id) > 0 } }
        /\ \A i \in 1..Len(byDate) :
             LET employees == byDate[i].employees
             IN  /\ Len(employees) = Cardinality(RecordsOn(ByDateRows, byDate[i].key))
                 /\ \A u \in 1..Len(userDirectory) :
                      Cardinality({ a \in 1..Len(employees) :
                                      employees[a].id = userDirectory[u].id })
                        = Cardinality({ r \in RecordsOn(ByDateRows, byDate[i].key) :
                                          r.user_id = userDirectory[u].id })
                 /\ \A a, b \in 1..Len(employees) :
                      a < b => DirectoryPos(employees[a].id) <= DirectoryPos(employees[b].id)
        /\ \E ord \in Orderings(ByDateRows) :
             \A i, j \in 1..Len(byDate) :
               i < j => FirstMet(ord, byDate[i].key) < FirstMet(ord, byDate[j].key)

\* Monday 2024-05-06 is listed before Friday 2024-05-03 and holds the same
\* user twice, followed by the other user
C21_Witness ==
  /\ ByDateRendered
  /\ Len(byDatePage.holidaysByDate) = 2
  /\ byDatePage.holidaysByDate[1].key = <<2024, 5, 6>>
  /\ byDatePage.holidaysByDate[2].key = <<2024, 5, 3>>
  /\ Len(byDatePage.holidaysByDate[1].employees) = 3
  /\ byDatePage.holidaysByDate[1].employees[1].id = byDatePage.holidaysByDate[1].employees[2].id

(***************************************************************************)
(* Properties of the by-person view, checked under SpecViews.              *)
(***************************************************************************)
\* the by-person page was rendered from fetched data
ByPersonRendered == byPersonPc = "done" /\ ~byPersonPage.error

\* the day numbers of the month the by-person view shows
ByPersonDays ==
  { DaysFromCivil(byPersonRange.year, byPersonRange.month, d) :
      d \in 1..daysInMonth(byPersonRange.year, byPersonRange.month) }

\* the days of the month on which a user has a holiday record
HolidayDaysOf(uid) ==
  { t \in ByPersonDays : \E r \in holidays : r.user_id = uid /\ r.holiday_date = t }

\* the days of the month on which a user is declared remote and which are no
\* weekend, no public holiday and no holiday of the user
QualifyingRemoteDays(uid) ==
  { t \in ByPersonDays :
      /\ \E l \in workLocations : l.user_id = uid /\ l.work_date = t /\ ~l.is_onsite
      /\ getDay(DateObj(t)) \notin {0, 6}
      /\ t \notin publicHolidayTable
      /\ t \notin HolidayDaysOf(uid) }

\* the employees of all groups of the page
OutputEmployees ==
  { byPersonPage.groupedEmployees[g].employees[e] :
      <<g, e>> \in { ge \in (1..Len(byPersonPage.groupedEmployees)) \X (1..Len(userDirectory)) :
                       ge[2] <= Len(byPersonPage.groupedEmployees[ge[1]].employees) } }

\* C22: in the by-person view the remoteDates of every user are exactly the
\* days of the month on which the user is declared remote and which are no
\* weekend, no public holiday of the month and no holiday of the user, in
\* ascending order, and remoteDaysCount is their number.  Violated: a public
\* holiday stored without a name is not taken for one.
C22_RemoteDatesExact ==
  ByPersonRendered =>
    \A employee \in OutputEmployees :
      /\ { employee.remoteDates[i] : i \in 1..Len(employee.remoteDates) }
           = { CivilFromDays(t) : t \in QualifyingRemoteDays(employee.id) }
      /\ \A i, j \in 1..Len(employee.remoteDates) :
           i < j => DateLeq(NewDate(employee.remoteDates[i]), NewDate(employee.remoteDates[j]))
                    /\ employee.remoteDates[i] # employee.remoteDates[j]
      /\ employee.remoteDaysCount = Len(employee.remoteDates)

\* the ids of the directory users
DirectoryIds == { userDirectory[i].id : i \in 1..Len(userDirectory) }

\* the holiday records of a user in the month the by-person view shows
HolidayRecordsOf(uid) ==
  { r \in holidays : r.user_id = uid /\ r.holiday_date \in ByPersonDays }

\* C23: a directory user appears in the by-person output exactly when the
\* user has a holiday record or a qualifying remote day in the month, and the
\* holidayCount of a listed user is the number of the user's holiday records
\* in the month.  Violated through the fault of C22: a user whose only remote
\* day falls on a public holiday stored without a name is listed.
C23_IncludedIffHolidayOrRemote ==
  ByPersonRendered =>
    /\ \A uid \in DirectoryIds :
         (\E employee \in OutputEmployees : employee.id = uid)
           <=> (HolidayRecordsOf(uid) # {} \/ QualifyingRemoteDays(uid) # {})
    /\ \A employee \in OutputEmployees :
         employee.holidayCount = Cardinality(HolidayRecordsOf(employee.id))

\* C24: the by-person output holds no group without employees; its groups
\* stand in the alphabetical order of their names, except that the ungrouped
\* bucket (id 0), when present, is the last one.
C24_GroupsSortedBucketLast ==
  byPersonPc = "done" =>
    LET groups == byPersonPage.groupedEmployees
    IN  /\ \A g \in 1..Len(groups) : Len(groups[g].employees) > 0
        /\ \A g, h \in 1..Len(groups) :
             g < h => /\ groups[g].id # 0
                      /\ groups[h].id # 0 => localeCompare(groups[g].name, groups[h].name) <= 0

\* "Alfa" (id 2) is listed before "Zeta" (id 1), and the groups without
\* employees are left out
C24_Witness ==
  /\ ByPersonRendered
  /\ Len(byPersonPage.groupedEmployees) = 2
  /\ byPersonPage.groupedEmployees[1].name = "Alfa"
  /\ byPersonPage.groupedEmployees[2].name = "Zeta"
  /\ Cardinality(groupDirectory) = 2

\* C25: in the by-person view totalEmployeesWithHolidays is the number of
\* directory users with a holiday record in the month, and
\* totalEmployeesWithRemoteWork the number of directory users with a
\* qualifying remote day in the month; neither exceeds the number of
\* employees listed.  Violated through the fault of C22: a user whose only
\* remote day falls on a public holiday stored without a name is counted.
C25_SummaryCounters ==
  ByPersonRendered =>
    /\ byPersonPage.totalEmployeesWithHolidays
         = Cardinality({ uid \in DirectoryIds : HolidayRecordsOf(uid) # {} })
    /\ byPersonPage.totalEmployeesWithRemoteWork
         = Cardinality({ uid \in DirectoryIds : QualifyingRemoteDays(uid) # {} })
    /\ byPersonPage.totalEmployeesWithHolidays <= Cardinality(OutputEmployees)
    /\ byPersonPage.totalEmployeesWithRemoteWork <= Cardinality(OutputEmployees)

(***************************************************************************)
(* One by-person request all of whose queries are answered.                *)
(***************************************************************************)
NextGroups ==
  \/ \E query \in PageQueries : ByPersonRequested(query)
  \/ ByPersonFetched

SpecGroups == InitViews /\ [][NextGroups]_vars

\* the group a user belongs under: the user's own group when the group
\* directory has it, otherwise the ungrouped bucket
BucketOf(user) ==
  IF \E g \in groupDirectory : g.id = user.group_id THEN user.group_id ELSE 0

\* C28: whatever the group references of the directory users, every user with
\* a holiday record or a qualifying remote day in the month is listed exactly
\* once in the by-person output, under the user's own group when the group
\* directory has it and under the ungrouped bucket otherwise.  Violated: a
\* user whose group is not in the group directory empties the whole page.
C28_EveryQualifyingUserListedOnce ==
  byPersonPc = "done" =>
    \A u \in 1..Len(userDirectory) :
      (HolidayRecordsOf(userDirectory[u].id) # {} \/ QualifyingRemoteDays(userDirectory[u].id) # {})
        => LET groups == byPersonPage.groupedEmployees
               places == { ge \in (1..Len(groups)) \X (1..Len(userDirectory)) :
                             /\ ge[2] <= Len(groups[ge[1]].employees)
                             /\ groups[ge[1]].employees[ge[2]].id = userDirectory[u].id }
           IN  /\ Cardinality(places) = 1
               /\ \A ge \in places : groups[ge[1]].id = BucketOf(userDirectory[u])

(***************************************************************************)
(* Properties of the add-holiday handler: the generated list and the day   *)
(* count.                                                                  *)
(***************************************************************************)
\* request p has passed the checks of the start date (lines 120-144) and
\* the list of its dates has been generated
PassedStartRules(p) ==
  \/ pc[p] \in {"select", "insert", "commit"}
  \/ /\ pc[p] = "done"
     /\ \/ response[p].kind = "success"
        \/ response[p] = ErrorRedirect("no_valid_days")

\* C26: a request whose start date passed the checks of the start date and
\* whose end date is not earlier than the start has the start date in its
\* generated list; no_valid_days is answered only when the end date is
\* earlier than the start date.  Violated: a date string that does not parse
\* passes the checks and yields an empty list.
C26_NoValidDaysOnlyEndBeforeStart ==
  \A p \in Procs :
    LET startObj == NewDate(start_date[p])
        endObj   == NewDate(actualEndDate(p))
    IN  /\ (PassedStartRules(p) /\ DateLeq(startObj, endObj))
             => \E i \in 1..Len(holidayDates[p]) : holidayDates[p][i] = formatDate(start_date[p])
        /\ (pc[p] = "done" /\ response[p] = ErrorRedirect("no_valid_days"))
             => (startObj.valid /\ endObj.valid /\ endObj.t < startObj.t)

\* the number of days the success redirect of a request tells the user were
\* added: N of added_N_days, one day for added (lines 173-174)
ReportedDays(r) == IF r.code = "added_N_days" THEN r.days ELSE 1

\* C27: the number of days a successful request reports as added is the
\* number of rows the request inserted.  Violated: the count is the length
\* of the generated list, the dates that already had a row included.
C27_ReportedCountIsInsertedCount ==
  \A p \in Procs :
    (pc[p] = "done" /\ response[p].kind = "success")
      => ReportedDays(response[p]) = Cardinality(holidays \ holidaysBefore[p])

(***************************************************************************)
(* Role updates: every user may have one request in progress, and the      *)
(* requests interleave at their awaits.                                    *)
(***************************************************************************)
\* every user has a role and may be blocked; at least one user is an
\* administrator
InitRoles ==
  /\ publicHolidayTable = {}
  /\ holidays = {}
  /\ pc = [p \in Procs |-> "idle"]
  /\ userId = [p \in Procs |-> 1]
  /\ start_date = [p \in Procs |-> NoString]
  /\ end_date = [p \in Procs |-> NoString]
  /\ publicHolidays = [p \in Procs |-> {}]
  /\ holidayDates = [p \in Procs |-> <<>>]
  /\ pos = [p \in Procs |-> 0]
  /\ txn = [p \in Procs |-> {}]
  /\ response = [p \in Procs |-> NoResponse]
  /\ holidaysBefore = [p \in Procs |-> {}]
  /\ GenIdle
  /\ DeleteIdle
  /\ HomeIdle
  /\ ViewIdle
  /\ userAccounts \in [Users -> [role : validRoles, is_blocked : BOOLEAN]]
  /\ \E u \in Users : userAccounts[u].role = "admin"
  /\ RoleRequestIdle

NextRoles ==
  \/ \E u \in Users, authenticated \in BOOLEAN, id \in Users,
          role \in validRoles \cup {"owner", ""} :
       RoleUpdateRequested(u, authenticated, id, role)
  \/ \E u \in Users : RoleAuthenticated(u)
  \/ \E u \in Users : RoleSet(u)
  \/ \E u \in Users : RoleFailed(u)
  \/ \E u \in Users : RoleFinish(u)

SpecRoles == InitRoles /\ [][NextRoles]_vars

\* C29: at least one administrator remains after any role updates, the
\* concurrent ones included.  Violated: two administrators whose requests
\* both passed requireAdmin demote each other.
C29_AnAdministratorRemains ==
  \E u \in Users : userAccounts[u].role = "admin"

=============================================================================
